---- MODULE Spec2Model ----
(***************************************************************************)
(* Model of the task engine of ttt (internal/task): line classification,   *)
(* parsing, the indentation forest, completion cascade, tagging and the    *)
(* archive partitioner.                                                    *)
(*                                                                         *)
(* A content string is a sequence of tokens.  A token is a pair            *)
(* <<kind, n>>: the characters the regular expressions of the package tell *)
(* apart (space, tab, newline, dash, the three checkboxes, other text) and *)
(* the @done(YYYY-MM-DD) tag, whose n is the date its ten characters spell *)
(* (a day number; a negative n spells a string of digits that is no        *)
(* calendar date, such as 2026-13-45).                                     *)
(*                                                                         *)
(* A clock reading is [day, tick]: the calendar day and the time of day in *)
(* ticks, tick 0 being midnight exactly.  The process runs with its local  *)
(* zone at UTC.  Instants (time.Time values) are ticks since midnight of   *)
(* day 0.                                                                  *)
(***************************************************************************)
EXTENDS Integers, Sequences, FiniteSets, Bags, TLC

\* ------------------------------------------------------------------ bounds
MaxLines == 3
MaxDay == 2
MaxDelay == 1
TicksPerDay == 2
MaxRuns == 2
MaxPending == 1
MaxArchiveKeys == 1

\* the calls of git.Sync in one behaviour
MaxSyncs == 2
\* status timeouts pending at once
MaxTimeouts == 2

\* ------------------------------------------------------- program constants
TabWidth == 2

\* ------------------------------------------------------------------ tokens
SP == <<"sp", 0>>
TAB == <<"tab", 0>>
NL == <<"nl", 0>>
DASH == <<"-", 0>>
BoxOpen == <<"[ ]", 0>>
BoxLower == <<"[x]", 0>>
BoxUpper == <<"[X]", 0>>
TXT == <<"txt", 0>>
DoneTag(d) == <<"@done", d>>

IsSpace(tok) == tok \in {SP, TAB, NL}

\* strings.Join(parts, sep)
RECURSIVE StringsJoin(_, _)
StringsJoin(parts, sep) ==
    IF Len(parts) = 0 THEN <<>>
    ELSE IF Len(parts) = 1 THEN parts[1]
    ELSE parts[1] \o sep \o StringsJoin(Tail(parts), sep)

\* strings.Split(s, "\n"): cur is the segment being read
RECURSIVE SplitFrom(_, _, _)
SplitFrom(s, i, cur) ==
    IF i > Len(s) THEN <<cur>>
    ELSE IF s[i] = NL THEN <<cur>> \o SplitFrom(s, i + 1, <<>>)
    ELSE SplitFrom(s, i + 1, Append(cur, s[i]))

\* as StringsSplit, but a trailing empty segment is dropped, as a line scanner
\* does
StringsSplitTrimmed(s) ==
    LET r == SplitFrom(s, 1, <<>>) IN
      IF Len(r) > 1 /\ r[Len(r)] = <<>> THEN SubSeq(r, 1, Len(r) - 1) ELSE r

StringsSplit(s) == SplitFrom(s, 1, <<>>)

\* ---------------------------------------------------------- line classifier
\* the index of the first token at or after i that `\s` does not match
RECURSIVE SkipSpace(_, _)
SkipSpace(line, i) ==
    IF i <= Len(line) /\ IsSpace(line[i]) THEN SkipSpace(line, i + 1) ELSE i

\* ^\s*-\s*\[ c \] with the checkbox c among boxes
MatchCheckbox(line, boxes) ==
    LET i == SkipSpace(line, 1) IN
      /\ i <= Len(line)
      /\ line[i] = DASH
      /\ LET j == SkipSpace(line, i + 1) IN
           j <= Len(line) /\ line[j] \in boxes

taskPattern(line) == MatchCheckbox(line, {BoxOpen, BoxLower, BoxUpper})

completedPattern(line) == MatchCheckbox(line, {BoxLower, BoxUpper})

\* the positions doneTagPattern matches at
doneTagPattern(line) == {i \in 1..Len(line) : line[i][1] = "@done"}

RECURSIVE GetIndentFrom(_, _, _)
GetIndentFrom(line, i, count) ==
    IF i > Len(line) THEN count
    ELSE IF line[i] = SP THEN GetIndentFrom(line, i + 1, count + 1)
    ELSE IF line[i] = TAB THEN GetIndentFrom(line, i + 1, count + TabWidth)
    ELSE count

GetIndentLevel(line) == GetIndentFrom(line, 1, 0)

IsTask(line) == taskPattern(line)

IsCompleted(line) == completedPattern(line)

HasDoneTag(line) == doneTagPattern(line) # {}

\* time.Parse("2006-01-02", s): the instant of UTC midnight, or an error
TimeParse(d) ==
    IF d >= 0 THEN [ok |-> TRUE, t |-> d * TicksPerDay]
    ELSE [ok |-> FALSE, t |-> 0]

NotFound == [found |-> FALSE, date |-> 0]

ParseDoneDate(line) ==
    LET m == doneTagPattern(line) IN
      IF m = {} THEN NotFound
      ELSE LET first == CHOOSE i \in m : \A k \in m : i <= k
               p == TimeParse(line[first][2])
           IN IF p.ok THEN [found |-> TRUE, date |-> p.t] ELSE NotFound

\* ------------------------------------------------------------- line parser
ParsedLine(i, line) ==
    [LineNumber |-> i,
     Content |-> line,
     Indent |-> GetIndentLevel(line),
     IsTask |-> IsTask(line),
     IsCompleted |-> IsCompleted(line),
     HasDoneTag |-> HasDoneTag(line)]

\* LineNumber is 0-indexed; the slice element i lives at position i + 1
ParseLines(c) ==
    LET rawLines == StringsSplit(c) IN
      [k \in 1..Len(rawLines) |-> ParsedLine(k - 1, rawLines[k])]

ReconstructContent(ls) ==
    StringsJoin([k \in 1..Len(ls) |-> ls[k].Content], <<NL>>)

\* ------------------------------------------------------------ tree builder
\* A TaskTree is named by the position of its Line in the slice; the forest is
\* [forest |-> the roots in order, children |-> each line's Children in order].
\* as PopStack, but a task of the same indentation stays on the stack
RECURSIVE PopStackDeeper(_, _, _)
PopStackDeeper(stack, ls, indent) ==
    IF Len(stack) > 0 /\ ls[stack[Len(stack)]].Indent > indent
    THEN PopStackDeeper(SubSeq(stack, 1, Len(stack) - 1), ls, indent)
    ELSE stack

RECURSIVE PopStack(_, _, _)
PopStack(stack, ls, indent) ==
    IF Len(stack) > 0 /\ ls[stack[Len(stack)]].Indent >= indent
    THEN PopStack(SubSeq(stack, 1, Len(stack) - 1), ls, indent)
    ELSE stack

RECURSIVE BuildFrom(_, _, _, _, _)
BuildFrom(ls, i, forest, children, stack) ==
    IF i > Len(ls) THEN [forest |-> forest, children |-> children]
    ELSE IF ~ls[i].IsTask THEN BuildFrom(ls, i + 1, forest, children, stack)
    ELSE LET popped == PopStack(stack, ls, ls[i].Indent) IN
           IF Len(popped) = 0
           THEN BuildFrom(ls, i + 1, Append(forest, i), children, Append(popped, i))
           ELSE LET parent == popped[Len(popped)] IN
                  BuildFrom(ls, i + 1, forest,
                            [children EXCEPT ![parent] = Append(@, i)],
                            Append(popped, i))

BuildTaskTrees(ls) ==
    BuildFrom(ls, 1, <<>>, [k \in 1..Len(ls) |-> <<>>], <<>>)

\* ------------------------------------------------------ completion cascader
\* strings.Replace(s, "[ ]", "[x]", 1)
ReplaceFirstOpenBox(s) ==
    LET hits == {i \in 1..Len(s) : s[i] = BoxOpen} IN
      IF hits = {} THEN s
      ELSE LET first == CHOOSE i \in hits : \A k \in hits : i <= k IN
             [s EXCEPT ![first] = BoxLower]

\* line + " @done(" + today + ")"
AppendDoneTag(line, today) == line \o <<SP, DoneTag(today)>>

\* st is [lines, count]: the shared slice and the count so far
RECURSIVE markTreeCompleted(_, _, _, _), MarkEach(_, _, _, _, _)
\* as markTreeCompleted, but the HasDoneTag flag of the line is left as it was
markTreeCompletedFlagUnset(tree, trees, st, today) ==
    LET line == st.lines[tree]
        st1 == IF ~line.IsCompleted
               THEN [lines |-> [st.lines EXCEPT ![tree] =
                                  [@ EXCEPT !.Content =
                                       AppendDoneTag(ReplaceFirstOpenBox(line.Content), today),
                                     !.IsCompleted = TRUE]],
                     count |-> st.count + 1]
               ELSE st
    IN MarkEach(trees.children[tree], 1, trees, st1, today)

\* as markTreeCompleted, but a line that is completed already is rewritten too
markTreeCompletedAnyLine(tree, trees, st, today) ==
    LET line == st.lines[tree]
        st1 == [lines |-> [st.lines EXCEPT ![tree] =
                             [@ EXCEPT !.Content =
                                  AppendDoneTag(ReplaceFirstOpenBox(line.Content), today),
                                !.IsCompleted = TRUE,
                                !.HasDoneTag = TRUE]],
                count |-> st.count + 1]
    IN MarkEach(trees.children[tree], 1, trees, st1, today)

markTreeCompleted(tree, trees, st, today) ==
    LET line == st.lines[tree]
        st1 == IF ~line.IsCompleted
               THEN [lines |-> [st.lines EXCEPT ![tree] =
                                  [@ EXCEPT !.Content =
                                       AppendDoneTag(ReplaceFirstOpenBox(line.Content), today),
                                     !.IsCompleted = TRUE,
                                     !.HasDoneTag = TRUE]],
                     count |-> st.count + 1]
               ELSE st
    IN MarkEach(trees.children[tree], 1, trees, st1, today)

MarkEach(kids, k, trees, st, today) ==
    IF k > Len(kids) THEN st
    ELSE MarkEach(kids, k + 1, trees, markTreeCompleted(kids[k], trees, st, today), today)

RECURSIVE cascadeCompletionRecursive(_, _, _, _), CascadeEach(_, _, _, _, _)
\* as cascadeCompletionRecursive, but only the tree it is called on can
\* trigger: its children are not checked in turn
cascadeCompletionNoDescent(tree, trees, st, today) ==
    IF st.lines[tree].IsCompleted
    THEN MarkEach(trees.children[tree], 1, trees, st, today)
    ELSE st

cascadeCompletionRecursive(tree, trees, st, today) ==
    LET st1 == IF st.lines[tree].IsCompleted
               THEN MarkEach(trees.children[tree], 1, trees, st, today)
               ELSE st
    IN CascadeEach(trees.children[tree], 1, trees, st1, today)

CascadeEach(kids, k, trees, st, today) ==
    IF k > Len(kids) THEN st
    ELSE CascadeEach(kids, k + 1, trees,
                     cascadeCompletionRecursive(kids[k], trees, st, today), today)

CascadeCompletion(ls, today) ==
    LET trees == BuildTaskTrees(ls) IN
      CascadeEach(trees.forest, 1, trees, [lines |-> ls, count |-> 0], today)

\* -------------------------------------------------------- completion tagger
\* the loop of ProcessContent over lines[i], i from the position given
RECURSIVE TagSweep(_, _, _)
\* as TagSweep, but a completed line is tagged whether or not it has a tag
TagSweepUntested(st, i, today) ==
    IF i > Len(st.lines) THEN st
    ELSE IF st.lines[i].IsCompleted
    THEN TagSweep([lines |-> [st.lines EXCEPT ![i] =
                                [@ EXCEPT !.Content = AppendDoneTag(@, today),
                                          !.HasDoneTag = TRUE]],
                   count |-> st.count + 1],
                  i + 1, today)
    ELSE TagSweep(st, i + 1, today)

\* as TagSweep, but the HasDoneTag flag of a line it tags is left unset
TagSweepFlagUnset(st, i, today) ==
    IF i > Len(st.lines) THEN st
    ELSE IF st.lines[i].IsCompleted /\ ~st.lines[i].HasDoneTag
    THEN TagSweep([lines |-> [st.lines EXCEPT ![i] =
                                [@ EXCEPT !.Content = AppendDoneTag(@, today)]],
                   count |-> st.count + 1],
                  i + 1, today)
    ELSE TagSweep(st, i + 1, today)

TagSweep(st, i, today) ==
    IF i > Len(st.lines) THEN st
    ELSE IF st.lines[i].IsCompleted /\ ~st.lines[i].HasDoneTag
    THEN TagSweep([lines |-> [st.lines EXCEPT ![i] =
                                [@ EXCEPT !.Content = AppendDoneTag(@, today),
                                          !.HasDoneTag = TRUE]],
                   count |-> st.count + 1],
                  i + 1, today)
    ELSE TagSweep(st, i + 1, today)

\* time.Now().Format("2006-01-02"): the calendar day
FormatToday(clock) == clock.day

ProcessLines(c, clock) ==
    TagSweep(CascadeCompletion(ParseLines(c), FormatToday(clock)), 1, FormatToday(clock))

ProcessContent(c, clock) ==
    LET st == ProcessLines(c, clock) IN
      [content |-> ReconstructContent(st.lines), count |-> st.count]

\* ------------------------------------------------------ archive partitioner
\* time.Now() as an instant
Instant(clock) == clock.day * TicksPerDay + clock.tick

\* time.Now().AddDate(0, 0, -delayDays): the same wall-clock time delayDays
\* calendar days earlier
Cutoff(clock, delayDays) == Instant([clock EXCEPT !.day = @ - delayDays])

\* time.Time{}: an instant before every date a tag can spell
ZeroTime == 0 - TicksPerDay

\* t.Before(u)
Before(t, u) == t < u

\* marks is [archiveSet |-> set of positions, groupDates |-> position -> instant]
Mark(marks, i, date) ==
    [archiveSet |-> marks.archiveSet \cup {i},
     groupDates |-> [marks.groupDates EXCEPT ![i] = date]]

RECURSIVE markArchivableRecursive(_, _, _, _, _, _, _, _), MarkArchivableEach(_, _, _, _, _, _, _, _)
\* as markArchivableRecursive, but a task of any depth can qualify by its own
\* tag date
markArchivableAnyDepth(tree, trees, ls, cutoff, marks, parentArchivable, parentDate, isRoot) ==
    LET line == ls[tree]
        doneDate == ParseDoneDate(line.Content)
        qualifies == /\ ~parentArchivable
                     /\ line.IsCompleted /\ line.HasDoneTag
                     /\ doneDate.found /\ Before(doneDate.date, cutoff)
        shouldArchive == parentArchivable \/ qualifies
        groupDate == IF qualifies THEN doneDate.date ELSE parentDate
        marks1 == IF shouldArchive THEN Mark(marks, tree, groupDate) ELSE marks
    IN MarkArchivableEach(trees.children[tree], 1, trees, ls, cutoff, marks1,
                          shouldArchive, groupDate)

\* as markArchivableRecursive, but an archived line that has a tag date of its
\* own is grouped under that date
markArchivableOwnDate(tree, trees, ls, cutoff, marks, parentArchivable, parentDate, isRoot) ==
    LET line == ls[tree]
        doneDate == ParseDoneDate(line.Content)
        qualifies == /\ isRoot /\ ~parentArchivable
                     /\ line.IsCompleted /\ line.HasDoneTag
                     /\ doneDate.found /\ Before(doneDate.date, cutoff)
        shouldArchive == parentArchivable \/ qualifies
        groupDate == IF qualifies THEN doneDate.date ELSE parentDate
        ownDate == IF doneDate.found THEN doneDate.date ELSE groupDate
        marks1 == IF shouldArchive THEN Mark(marks, tree, ownDate) ELSE marks
    IN MarkArchivableEach(trees.children[tree], 1, trees, ls, cutoff, marks1,
                          shouldArchive, groupDate)

\* as markArchivableRecursive, but the children of an archived task are not
\* archived with it
markArchivableRootOnly(tree, trees, ls, cutoff, marks, parentArchivable, parentDate, isRoot) ==
    LET line == ls[tree]
        doneDate == ParseDoneDate(line.Content)
        qualifies == /\ isRoot /\ ~parentArchivable
                     /\ line.IsCompleted /\ line.HasDoneTag
                     /\ doneDate.found /\ Before(doneDate.date, cutoff)
        shouldArchive == parentArchivable \/ qualifies
        groupDate == IF qualifies THEN doneDate.date ELSE parentDate
        marks1 == IF shouldArchive THEN Mark(marks, tree, groupDate) ELSE marks
    IN MarkArchivableEach(trees.children[tree], 1, trees, ls, cutoff, marks1,
                          FALSE, groupDate)

markArchivableRecursive(tree, trees, ls, cutoff, marks, parentArchivable, parentDate, isRoot) ==
    LET line == ls[tree]
        doneDate == ParseDoneDate(line.Content)
        qualifies == /\ isRoot /\ ~parentArchivable
                     /\ line.IsCompleted /\ line.HasDoneTag
                     /\ doneDate.found /\ Before(doneDate.date, cutoff)
        shouldArchive == parentArchivable \/ qualifies
        groupDate == IF qualifies THEN doneDate.date ELSE parentDate
        marks1 == IF shouldArchive THEN Mark(marks, tree, groupDate) ELSE marks
    IN MarkArchivableEach(trees.children[tree], 1, trees, ls, cutoff, marks1,
                          shouldArchive, groupDate)

MarkArchivableEach(kids, k, trees, ls, cutoff, marks, parentArchivable, parentDate) ==
    IF k > Len(kids) THEN marks
    ELSE MarkArchivableEach(kids, k + 1, trees, ls, cutoff,
                            markArchivableRecursive(kids[k], trees, ls, cutoff, marks,
                                                    parentArchivable, parentDate, FALSE),
                            parentArchivable, parentDate)

\* the loop of FilterArchivable over the forest
RECURSIVE MarkForest(_, _, _, _, _)
MarkForest(trees, k, ls, cutoff, marks) ==
    IF k > Len(trees.forest) THEN marks
    ELSE MarkForest(trees, k + 1, ls, cutoff,
                    markArchivableRecursive(trees.forest[k], trees, ls, cutoff, marks,
                                            FALSE, ZeroTime, TRUE))

\* the inner loop of includeNonTaskChildren: j runs from the line after the
\* archived task i until a line of the same or lesser indentation
RECURSIVE IncludeBelow(_, _, _, _)
\* as IncludeBelow, but the scan stops only at a line of lesser indentation
IncludeBelowSameIndent(ls, i, j, marks) ==
    IF j > Len(ls) THEN marks
    ELSE IF ls[j].Indent < ls[i].Indent THEN marks
    ELSE IF ~ls[j].IsTask /\ j \notin marks.archiveSet
    THEN IncludeBelow(ls, i, j + 1, Mark(marks, j, marks.groupDates[i]))
    ELSE IncludeBelow(ls, i, j + 1, marks)

IncludeBelow(ls, i, j, marks) ==
    IF j > Len(ls) THEN marks
    ELSE IF ls[j].Indent <= ls[i].Indent THEN marks
    ELSE IF ~ls[j].IsTask /\ j \notin marks.archiveSet
    THEN IncludeBelow(ls, i, j + 1, Mark(marks, j, marks.groupDates[i]))
    ELSE IncludeBelow(ls, i, j + 1, marks)

RECURSIVE IncludeFrom(_, _, _)
IncludeFrom(ls, i, marks) ==
    IF i > Len(ls) THEN marks
    ELSE IF i \notin marks.archiveSet \/ ~ls[i].IsTask THEN IncludeFrom(ls, i + 1, marks)
    ELSE IncludeFrom(ls, i + 1, IncludeBelow(ls, i, i + 1, marks))

includeNonTaskChildren(ls, marks) == IncludeFrom(ls, 1, marks)

NoMarks(ls) == [archiveSet |-> {}, groupDates |-> [k \in 1..Len(ls) |-> ZeroTime]]

\* the archiveSet and groupDates of FilterArchivable when it partitions
ArchiveMarks(c, delayDays, clock) ==
    LET ls == ParseLines(c)
        trees == BuildTaskTrees(ls)
    IN includeNonTaskChildren(ls, MarkForest(trees, 1, ls, Cutoff(clock, delayDays), NoMarks(ls)))

\* the partition loop of FilterArchivable
RECURSIVE Partition(_, _, _, _, _)
Partition(ls, marks, i, archivable, remaining) ==
    IF i > Len(ls) THEN [archivable |-> archivable, remaining |-> remaining]
    ELSE IF i \in marks.archiveSet
    THEN Partition(ls, marks, i + 1,
                   Append(archivable, [Content |-> ls[i].Content,
                                       GroupDate |-> marks.groupDates[i]]),
                   remaining)
    ELSE Partition(ls, marks, i + 1, archivable, Append(remaining, ls[i].Content))

\* as FilterArchivable, but the remaining lines are each ended by a newline
FilterArchivableLineEnded(c, delayDays, clock) ==
    LET ls == ParseLines(c)
        p == Partition(ls, ArchiveMarks(c, delayDays, clock), 1, <<>>, <<>>)
    IN [archivable |-> p.archivable,
        remaining |-> StringsJoin(Append(p.remaining, <<>>), <<NL>>)]

FilterArchivable(c, delayDays, clock) ==
    LET ls == ParseLines(c)
        p == Partition(ls, ArchiveMarks(c, delayDays, clock), 1, <<>>, <<>>)
    IN [archivable |-> p.archivable, remaining |-> StringsJoin(p.remaining, <<NL>>)]

\* -------------------------------------------------------- archive formatter
\* GroupDate.Format("2006-01-02"): the calendar day an instant falls on.  The
\* ten characters order as strings the way the days order as numbers.
FormatDate(t) == t \div TicksPerDay

\* the line "## " + date
Header(d) == <<"##", d>>

\* byDate[date]: the texts of the tasks of a date, in the order of the slice
RECURSIVE ByDate(_, _)
ByDate(tasks, d) ==
    IF Len(tasks) = 0 THEN <<>>
    ELSE (IF FormatDate(Head(tasks).GroupDate) = d THEN <<Head(tasks).Content>> ELSE <<>>)
         \o ByDate(Tail(tasks), d)

\* sort.Sort(sort.StringSlice(dates)): ascending
RECURSIVE SortAscending(_)
SortAscending(dates) ==
    IF dates = {} THEN <<>>
    ELSE LET m == CHOOSE x \in dates : \A y \in dates : x <= y IN
           <<m>> \o SortAscending(dates \ {m})

\* sort.Sort(sort.Reverse(sort.StringSlice(dates))) over the keys of byDate
RECURSIVE SortDescending(_)
SortDescending(dates) ==
    IF dates = {} THEN <<>>
    ELSE LET m == CHOOSE x \in dates : \A y \in dates : y <= x IN
           <<m>> \o SortDescending(dates \ {m})

\* builder.WriteString(task + "\n") for each task of a date
RECURSIVE WriteTasks(_)
WriteTasks(texts) ==
    IF Len(texts) = 0 THEN <<>>
    ELSE Head(texts) \o <<NL>> \o WriteTasks(Tail(texts))

\* the output loop of FormatArchiveEntry over the sorted dates
RECURSIVE WriteSections(_, _)
WriteSections(tasks, dates) ==
    IF Len(dates) = 0 THEN <<>>
    ELSE <<Header(Head(dates)), NL, NL>>
         \o WriteTasks(ByDate(tasks, Head(dates)))
         \o <<NL>>
         \o WriteSections(tasks, Tail(dates))

FormatArchiveEntry(tasks) ==
    IF Len(tasks) = 0 THEN <<>>
    ELSE WriteSections(tasks,
                       SortDescending({FormatDate(tasks[k].GroupDate) : k \in 1..Len(tasks)}))

\* ------------------------------------------------------ persistence adapter
\* A file is [exists, data, writable].  The one error a read returns is that
\* the file does not exist; a write to a path that is not writable returns an
\* error and leaves the file as it is.
NoFile == [exists |-> FALSE, data |-> <<>>, writable |-> TRUE]

File(data) == [exists |-> TRUE, data |-> data, writable |-> TRUE]

\* the same path with no permission to write it
ReadOnly(f) == [f EXCEPT !.writable = FALSE]

NoError == "nil"

LoadFile(f) ==
    IF f.exists THEN [content |-> f.data, err |-> NoError]
    ELSE [content |-> <<>>, err |-> "not exist"]

\* the error os.WriteFile returns
WriteError(f) == IF f.writable THEN NoError ELSE "permission denied"

\* the file WriteFile leaves
WriteFile(f, c) == IF f.writable THEN File(c) ELSE f

\* the file PrependToFile leaves: os.IsNotExist is not an error to it, and the
\* error it returns is that of its WriteFile
PrependToFile(f, c) == WriteFile(f, c \o LoadFile(f).content)

\* the result of an operation on the two files: the files as it leaves them,
\* the count and error it returns, and the paths it wrote
Outcome(tasks, archive, n, e, w) ==
    [tasks |-> tasks, archive |-> archive, count |-> n, err |-> e, wrote |-> w]

ProcessFileWithDoneTags(tasks, archive, now) ==
    LET l == LoadFile(tasks) IN
      IF l.err # NoError THEN Outcome(tasks, archive, 0, l.err, {})
      ELSE LET r == ProcessContent(l.content, now) IN
             IF r.count > 0
             THEN IF WriteError(tasks) # NoError
                  THEN Outcome(tasks, archive, 0, WriteError(tasks), {})
                  ELSE Outcome(WriteFile(tasks, r.content), archive, r.count, NoError,
                               {"tasks"})
             ELSE Outcome(tasks, archive, r.count, NoError, {})

\* as Archive, but the archive file is overwritten with the new sections
ArchiveOverwriting(tasks, archive, d, now) ==
    LET l == LoadFile(tasks) IN
      IF l.err # NoError THEN Outcome(tasks, archive, 0, l.err, {})
      ELSE LET f == FilterArchivable(l.content, d, now) IN
             IF Len(f.archivable) = 0 THEN Outcome(tasks, archive, 0, NoError, {})
             ELSE Outcome(WriteFile(tasks, f.remaining),
                          WriteFile(archive, FormatArchiveEntry(f.archivable)),
                          Len(f.archivable), NoError, {"archive", "tasks"})

\* as Archive, but the files are written whether or not a line is archivable
ArchiveAlwaysWriting(tasks, archive, d, now) ==
    LET l == LoadFile(tasks) IN
      IF l.err # NoError THEN Outcome(tasks, archive, 0, l.err, {})
      ELSE LET f == FilterArchivable(l.content, d, now) IN
             Outcome(WriteFile(tasks, f.remaining),
                     PrependToFile(archive, FormatArchiveEntry(f.archivable)),
                     Len(f.archivable), NoError, {"archive", "tasks"})

\* as Archive, but the tasks file is written before the archive file
ArchiveTasksFirst(tasks, archive, d, now) ==
    LET l == LoadFile(tasks) IN
      IF l.err # NoError THEN Outcome(tasks, archive, 0, l.err, {})
      ELSE LET f == FilterArchivable(l.content, d, now) IN
             IF Len(f.archivable) = 0 THEN Outcome(tasks, archive, 0, NoError, {})
             ELSE IF WriteError(tasks) # NoError
             THEN Outcome(tasks, archive, 0, WriteError(tasks), {})
             ELSE IF WriteError(archive) # NoError
             THEN Outcome(WriteFile(tasks, f.remaining), archive, 0, WriteError(archive),
                          {"tasks"})
             ELSE Outcome(WriteFile(tasks, f.remaining),
                          PrependToFile(archive, FormatArchiveEntry(f.archivable)),
                          Len(f.archivable), NoError, {"archive", "tasks"})

Archive(tasks, archive, d, now) ==
    LET l == LoadFile(tasks) IN
      IF l.err # NoError THEN Outcome(tasks, archive, 0, l.err, {})
      ELSE LET f == FilterArchivable(l.content, d, now) IN
             IF Len(f.archivable) = 0 THEN Outcome(tasks, archive, 0, NoError, {})
             ELSE IF WriteError(archive) # NoError
             THEN Outcome(tasks, archive, 0, WriteError(archive), {})
             ELSE IF WriteError(tasks) # NoError
             THEN Outcome(tasks, PrependToFile(archive, FormatArchiveEntry(f.archivable)),
                          0, WriteError(tasks), {"archive"})
             ELSE Outcome(WriteFile(tasks, f.remaining),
                          PrependToFile(archive, FormatArchiveEntry(f.archivable)),
                          Len(f.archivable), NoError, {"archive", "tasks"})

\* as archiveCmd, but Archive is run on the tasks file as it is
archiveCmdArchiveOnly(tasks, archive, d, now) == Archive(tasks, archive, d, now)

\* the function archiveCmd returns: the tagger on the tasks file, then Archive.
\* Both read the clock; the model gives them one reading.
archiveCmd(tasks, archive, d, now) ==
    LET t == ProcessFileWithDoneTags(tasks, archive, now) IN
      IF t.err # NoError THEN Outcome(tasks, archive, 0, t.err, {})
      ELSE LET a == Archive(t.tasks, t.archive, d, now) IN
             Outcome(a.tasks, a.archive, a.count, a.err, t.wrote \cup a.wrote)

\* ------------------------------------------------------ terminal interface
\* A status text is <<words, n>>: the fixed words of the message and the
\* number strconv.Itoa puts among them (0 where there is none).
Status(words, n) == <<words, n>>

NoStatus == Status("", 0)

\* New / NewWithPaths: the Model fields Update reads or writes, with the two
\* settings of config.Archive.  The viewport (its size, its scroll offset and
\* the ready flag of its first sizing) is left out.
New(c, auto, d) ==
    [content |-> c, status |-> NoStatus, showHelp |-> FALSE,
     auto |-> auto, delayDays |-> d]

\* A tea.Cmd is [kind, origin]: which function it is, and, for the record of
\* an archive or reload command, the key or message type whose handling
\* returned it ("Init" for Model.Init).
Cmd(kind, origin) == [kind |-> kind, origin |-> origin]

NoCmd == Cmd("nil", "")

\* A tea.Msg; origin is that of the command that sent it.
Msg(type, key, n, e, c, origin) ==
    [type |-> type, key |-> key, count |-> n, err |-> e, content |-> c, origin |-> origin]

KeyMsg(key) == Msg("KeyMsg", key, 0, NoError, <<>>, "")

\* what is kept of an Update: the message less its content, and the kind of
\* command returned
Updated(msg, cmd) ==
    [type |-> msg.type, key |-> msg.key, count |-> msg.count, err |-> msg.err,
     origin |-> msg.origin, cmd |-> cmd.kind]

NoUpdate == Updated(Msg("none", "", 0, NoError, <<>>, ""), NoCmd)

\* what Update returns
Returned(m, cmd) == [model |-> m, cmd |-> cmd]

\* the tick is recorded with the words of the status it is to clear; the
\* ClearStatusMsg of the program carries nothing
setStatusWithTimeout(m, status, origin) ==
    Returned([m EXCEPT !.status = status], Cmd("tick", status[1]))

\* Model.Init
ModelInit(m) ==
    IF m.auto THEN Cmd("archive", "Init") ELSE Cmd("addDoneTags", "")

\* as handleKeyPress, but the quit keys are looked at before the help overlay
handleKeyPressQuitFirst(m, key) ==
    IF key \in {"q", "ctrl+c"} THEN Returned(m, Cmd("quit", ""))
    ELSE IF m.showHelp THEN Returned([m EXCEPT !.showHelp = FALSE], NoCmd)
    ELSE IF key = "e" THEN Returned(m, Cmd("edit", ""))
    ELSE IF key = "a" THEN Returned(m, Cmd("archive", key))
    ELSE IF key = "r" THEN Returned(m, Cmd("reload", key))
    ELSE IF key \in {"?", "h"} THEN Returned([m EXCEPT !.showHelp = TRUE], NoCmd)
    ELSE Returned(m, NoCmd)

\* the scrolling keys act on the viewport alone
handleKeyPress(m, key) ==
    IF m.showHelp THEN Returned([m EXCEPT !.showHelp = FALSE], NoCmd)
    ELSE IF key \in {"q", "ctrl+c"} THEN Returned(m, Cmd("quit", ""))
    ELSE IF key = "e" THEN Returned(m, Cmd("edit", ""))
    ELSE IF key = "a" THEN Returned(m, Cmd("archive", key))
    ELSE IF key = "r" THEN Returned(m, Cmd("reload", key))
    ELSE IF key \in {"?", "h"} THEN Returned([m EXCEPT !.showHelp = TRUE], NoCmd)
    ELSE Returned(m, NoCmd)

\* as UpdateEditFinished, but the archive command is run when archive.auto is
\* set
UpdateEditFinishedAutoArchive(m, msg) ==
    IF msg.err # NoError
    THEN setStatusWithTimeout(m, Status("Error: ", 0), msg.type)
    ELSE IF m.auto THEN Returned(m, Cmd("archive", msg.type))
    ELSE Returned(m, Cmd("addDoneTagsAndReload", ""))

\* case EditFinishedMsg of Update
UpdateEditFinished(m, msg) ==
    IF msg.err # NoError
    THEN setStatusWithTimeout(m, Status("Error: ", 0), msg.type)
    ELSE Returned(m, Cmd("addDoneTagsAndReload", ""))

\* case ArchiveFinishedMsg of Update
UpdateArchiveFinished(m, msg) ==
    IF msg.err # NoError
    THEN setStatusWithTimeout(m, Status("Archive error: ", 0), msg.type)
    ELSE IF msg.count > 0
    THEN Returned([m EXCEPT !.status = Status("Archived task(s)", msg.count)],
                  Cmd("reload", msg.type))
    ELSE setStatusWithTimeout(m, Status("No tasks to archive", 0), msg.type)

\* case ReloadFinishedMsg of Update
UpdateReloadFinished(m, msg) ==
    IF msg.err # NoError
    THEN setStatusWithTimeout(m, Status("Reload error: ", 0), msg.type)
    ELSE setStatusWithTimeout([m EXCEPT !.content = msg.content],
                              Status("Reloaded", 0), msg.type)

\* case AddDoneTagsFinishedMsg of Update
UpdateAddDoneTagsFinished(m, msg) ==
    IF msg.err # NoError
    THEN setStatusWithTimeout(m, Status("Error: ", 0), msg.type)
    ELSE IF msg.count > 0
    THEN Returned([m EXCEPT !.status = Status("task(s) marked as done", msg.count)],
                  Cmd("reload", msg.type))
    ELSE Returned(m, Cmd("reload", msg.type))

\* statusMsg and errMsg, which no command sends, and what Update hands on to
\* the viewport are left out
Update(m, msg) ==
    IF msg.type = "KeyMsg" THEN handleKeyPress(m, msg.key)
    ELSE IF msg.type = "ClearStatusMsg" THEN Returned([m EXCEPT !.status = NoStatus], NoCmd)
    ELSE IF msg.type = "EditFinishedMsg" THEN UpdateEditFinished(m, msg)
    ELSE IF msg.type = "ArchiveFinishedMsg" THEN UpdateArchiveFinished(m, msg)
    ELSE IF msg.type = "ReloadFinishedMsg" THEN UpdateReloadFinished(m, msg)
    ELSE IF msg.type = "AddDoneTagsFinishedMsg" THEN UpdateAddDoneTagsFinished(m, msg)
    ELSE Returned(m, NoCmd)

\* ------------------------------------------------------------------ inputs
TagDates == 0..MaxDay

\* a date string of digits that is no calendar date
BadDate == 0 - 1

Task(box) == <<DASH, SP, box, SP, TXT>>

Tagged(box, d) == <<DASH, SP, box, SP, TXT, SP, DoneTag(d)>>

Note == <<DASH, SP, TXT>>

\* the lines a tasks file is written with, at indent 0, 1 (a space) and 2 (a tab)
LineSet ==
    {<<>>, Task(BoxOpen), <<DASH, BoxUpper>>, Tagged(BoxLower, BadDate)}
    \cup {Tagged(BoxLower, d) : d \in TagDates}
    \cup {<<SP>> \o Tagged(BoxOpen, 0), <<SP>> \o Tagged(BoxLower, 0), <<SP>> \o Note}
    \cup {<<TAB>> \o Task(BoxOpen), <<TAB>> \o Note}

Contents ==
    UNION {{StringsJoin(ls, <<NL>>) : ls \in [1..n -> LineSet]} : n \in 1..MaxLines}

Clocks == [day : {MaxDay}, tick : 0..(TicksPerDay - 1)]

Delays == 0..MaxDelay

\* ----------------------------------------------------------- state machine
VARIABLES
    content,    \* the content string the first operation was given
    op,         \* the last operation: "none", "parse", "process", "reprocess", "filter"
    clock,      \* the reading of time.Now() the last operation took
    delayDays,  \* the delayDays the last FilterArchivable was given
    lines,      \* the ParsedLine slice the last operation left
    marks,      \* archiveSet and groupDates as the last FilterArchivable left them
    prior,      \* the content string the operation before the last returned
    result,     \* the content string the last operation returned
    count,      \* the count the last ProcessContent returned
    archivable, \* the entries the last FilterArchivable returned
    taskTrees,  \* the forest the last BuildTaskTrees returned
    bareTrees,  \* the forest of the same content without its non-task lines
    tasksFile,  \* the tasks file
    archiveFile,\* the archive file
    before,     \* the two files as the last operation on them found them
    err,        \* the error the last operation on the files returned
    wrote,      \* the paths the last operation on the files wrote
    runs,       \* the number of Archive runs, or of archive commands, so far
    model,      \* the tui.Model the bubbletea runtime holds
    cmds,       \* the tea.Cmd functions returned and not yet run
    msgs,       \* the messages produced and not yet passed to Update
    last,       \* the message the last Update was passed
    archiveRuns,\* the origin and count of every run of task.Archive by a command
    repo,       \* the git repository of the tasks directory
    sync        \* the call of git.Sync: its position, the commands it ran, its error

engineVars == <<content, op, clock, delayDays, lines, marks, prior, result, count, archivable>>

treeVars == <<taskTrees, bareTrees>>

fileVars == <<tasksFile, archiveFile, before, err, wrote, runs>>

tuiVars == <<model, cmds, msgs, last, archiveRuns>>

gitVars == <<repo, sync>>

vars == <<engineVars, treeVars, fileVars, tuiVars, gitVars>>

NoTrees == [forest |-> <<>>, children |-> <<>>]

\* the variables a specification does not use stay as they are here
TreesIdle == taskTrees = NoTrees /\ bareTrees = NoTrees

FilesIdle ==
    /\ tasksFile = NoFile
    /\ archiveFile = NoFile
    /\ before = [tasks |-> NoFile, archive |-> NoFile]
    /\ err = NoError
    /\ wrote = {}
    /\ runs = 0

TuiIdle ==
    /\ model = New(<<>>, FALSE, 0)
    /\ cmds = EmptyBag
    /\ msgs = EmptyBag
    /\ last = NoUpdate
    /\ archiveRuns = {}

GitIdle ==
    /\ repo = [origin |-> FALSE, dirty |-> FALSE]
    /\ sync = [pc |-> "new", ran |-> <<>>, err |-> NoError, n |-> 0]

Init ==
    /\ content \in Contents
    /\ op = "none"
    /\ clock = [day |-> MaxDay, tick |-> 0]
    /\ delayDays = 0
    /\ lines = <<>>
    /\ marks = NoMarks(<<>>)
    /\ prior = <<>>
    /\ result = <<>>
    /\ count = 0
    /\ archivable = <<>>
    /\ TreesIdle /\ FilesIdle /\ TuiIdle /\ GitIdle

\* ReconstructContent(ParseLines(content))
Parse ==
    /\ op = "none"
    /\ op' = "parse"
    /\ lines' = ParseLines(content)
    /\ result' = ReconstructContent(lines')
    /\ UNCHANGED <<content, clock, delayDays, marks, prior, count, archivable>>
    /\ UNCHANGED <<treeVars, fileVars, tuiVars, gitVars>>

\* ProcessContent(content); it reads the day of the clock only
Process ==
    /\ op = "none"
    /\ \E now \in Clocks :
         /\ now.tick = 0
         /\ clock' = now
         /\ lines' = ProcessLines(content, now).lines
         /\ LET r == ProcessContent(content, now) IN
              result' = r.content /\ count' = r.count
    /\ op' = "process"
    /\ UNCHANGED <<content, delayDays, marks, prior, archivable>>
    /\ UNCHANGED <<treeVars, fileVars, tuiVars, gitVars>>

\* ProcessContent again, on what the last ProcessContent returned, the same day
Reprocess ==
    /\ op = "process"
    /\ op' = "reprocess"
    /\ prior' = result
    /\ lines' = ProcessLines(result, clock).lines
    /\ LET r == ProcessContent(result, clock) IN
         result' = r.content /\ count' = r.count
    /\ UNCHANGED <<content, clock, delayDays, marks, archivable>>
    /\ UNCHANGED <<treeVars, fileVars, tuiVars, gitVars>>

\* FilterArchivable(content, d)
Filter ==
    /\ op = "none"
    /\ \E d \in Delays, now \in Clocks :
         /\ delayDays' = d
         /\ clock' = now
         /\ lines' = ParseLines(content)
         /\ marks' = ArchiveMarks(content, d, now)
         /\ LET r == FilterArchivable(content, d, now) IN
              archivable' = r.archivable /\ result' = r.remaining
    /\ op' = "filter"
    /\ UNCHANGED <<content, prior, count>>
    /\ UNCHANGED <<treeVars, fileVars, tuiVars, gitVars>>

Next == Parse \/ Process \/ Reprocess \/ Filter

Spec == Init /\ [][Next]_vars

\* ------------------------------------------------- the formatter on its own
\* the texts of archived lines: a root, a child with a tag of its own, a note
EntryTexts == {Tagged(BoxLower, 0), <<SP>> \o Tagged(BoxLower, MaxDay), <<SP>> \o Note}

\* a GroupDate is the instant time.Parse gave for the tag of a root
Entries == [Content : EntryTexts, GroupDate : {TimeParse(d).t : d \in TagDates}]

EntryLists == UNION {[1..n -> Entries] : n \in 0..MaxLines}

FormatInit ==
    /\ archivable \in EntryLists
    /\ content = <<>>
    /\ op = "none"
    /\ clock = [day |-> MaxDay, tick |-> 0]
    /\ delayDays = 0
    /\ lines = <<>>
    /\ marks = NoMarks(<<>>)
    /\ prior = <<>>
    /\ result = <<>>
    /\ count = 0
    /\ TreesIdle /\ FilesIdle /\ TuiIdle /\ GitIdle

\* FormatArchiveEntry(archivable)
Format ==
    /\ op = "none"
    /\ op' = "format"
    /\ result' = FormatArchiveEntry(archivable)
    /\ UNCHANGED <<content, clock, delayDays, lines, marks, prior, count, archivable>>
    /\ UNCHANGED <<treeVars, fileVars, tuiVars, gitVars>>

FormatNext == Format

FormatSpec == FormatInit /\ [][FormatNext]_vars

\* ---------------------------------------------- the tree builder on its own
\* the texts of the task lines of a slice, in order
RECURSIVE TaskTexts(_)
TaskTexts(ls) ==
    IF Len(ls) = 0 THEN <<>>
    ELSE (IF Head(ls).IsTask THEN <<Head(ls).Content>> ELSE <<>>) \o TaskTexts(Tail(ls))

TreeInit ==
    /\ content \in Contents
    /\ op = "none"
    /\ clock = [day |-> MaxDay, tick |-> 0]
    /\ delayDays = 0
    /\ lines = <<>>
    /\ marks = NoMarks(<<>>)
    /\ prior = <<>>
    /\ result = <<>>
    /\ count = 0
    /\ archivable = <<>>
    /\ TreesIdle /\ FilesIdle /\ TuiIdle /\ GitIdle

\* BuildTaskTrees(ParseLines(content))
Build ==
    /\ op = "none"
    /\ op' = "build"
    /\ lines' = ParseLines(content)
    /\ taskTrees' = BuildTaskTrees(lines')
    /\ UNCHANGED <<content, clock, delayDays, marks, prior, result, count, archivable, bareTrees>>
    /\ UNCHANGED <<fileVars, tuiVars, gitVars>>

\* BuildTaskTrees again, on the task lines of the content alone
BuildBare ==
    /\ op = "build"
    /\ op' = "bare"
    /\ result' = StringsJoin(TaskTexts(lines), <<NL>>)
    /\ bareTrees' = BuildTaskTrees(ParseLines(result'))
    /\ UNCHANGED <<content, clock, delayDays, lines, marks, prior, count, archivable, taskTrees>>
    /\ UNCHANGED <<fileVars, tuiVars, gitVars>>

TreeNext == Build \/ BuildBare

TreeSpec == TreeInit /\ [][TreeNext]_vars

\* ------------------------------------------------ one operation on the files
\* the lines of a tasks file: roots open, completed without a tag and completed
\* with a tag of each date, a note and an open task below a root
FileLines ==
    {Task(BoxOpen), <<DASH, BoxUpper>>, <<SP>> \o Note, <<SP>> \o Task(BoxOpen)}
    \cup {Tagged(BoxLower, d) : d \in TagDates}

FileContents ==
    UNION {{StringsJoin(ls, <<NL>>) : ls \in [1..n -> FileLines]} : n \in 1..MaxLines}

\* what an earlier run left in the archive file
OldArchive ==
    FormatArchiveEntry(<<[Content |-> Tagged(BoxLower, 0), GroupDate |-> TimeParse(0).t]>>)

ArchiveInit ==
    /\ tasksFile \in {File(c) : c \in FileContents} \cup {NoFile}
    /\ archiveFile \in {NoFile, File(OldArchive)}
    /\ before = [tasks |-> tasksFile, archive |-> archiveFile]
    /\ err = NoError
    /\ wrote = {}
    /\ runs = 0
    /\ content = <<>>
    /\ op = "none"
    /\ clock = [day |-> MaxDay, tick |-> 0]
    /\ delayDays = 0
    /\ lines = <<>>
    /\ marks = NoMarks(<<>>)
    /\ prior = <<>>
    /\ result = <<>>
    /\ count = 0
    /\ archivable = <<>>
    /\ TreesIdle /\ TuiIdle /\ GitIdle

\* the files, count and error as an operation on the two files leaves them
Leave(r) ==
    /\ before' = [tasks |-> tasksFile, archive |-> archiveFile]
    /\ tasksFile' = r.tasks
    /\ archiveFile' = r.archive
    /\ count' = r.count
    /\ err' = r.err
    /\ wrote' = r.wrote

\* Archive(tasksPath, archivePath, d)
ArchiveRun ==
    /\ op = "none"
    /\ \E d \in Delays, now \in Clocks :
         /\ delayDays' = d
         /\ clock' = now
         /\ Leave(Archive(tasksFile, archiveFile, d, now))
    /\ op' = "archive"
    /\ UNCHANGED <<content, lines, marks, prior, result, archivable, runs>>
    /\ UNCHANGED <<treeVars, tuiVars, gitVars>>

\* the function archiveCmd returns, run with config.Archive.DelayDays d
ArchiveCmdRun ==
    /\ op = "none"
    /\ \E d \in Delays, now \in Clocks :
         /\ delayDays' = d
         /\ clock' = now
         /\ Leave(archiveCmd(tasksFile, archiveFile, d, now))
    /\ op' = "archiveCmd"
    /\ UNCHANGED <<content, lines, marks, prior, result, archivable, runs>>
    /\ UNCHANGED <<treeVars, tuiVars, gitVars>>

ArchiveNext == ArchiveRun \/ ArchiveCmdRun

ArchiveSpec == ArchiveInit /\ [][ArchiveNext]_vars

\* ------------------------------------------- a history of runs of Archive
\* the tasks file as the user saves it between runs: completed roots with a
\* tag of any date
HistoryLines == {Tagged(BoxLower, d) : d \in TagDates}

HistoryContents ==
    UNION {{StringsJoin(ls, <<NL>>) : ls \in [1..n -> HistoryLines]} : n \in 1..(MaxLines - 1)}

HistoryInit ==
    /\ tasksFile \in {File(c) : c \in HistoryContents}
    /\ archiveFile = NoFile
    /\ before = [tasks |-> tasksFile, archive |-> archiveFile]
    /\ err = NoError
    /\ wrote = {}
    /\ runs = 0
    /\ content = <<>>
    /\ op = "none"
    /\ clock = [day |-> 0, tick |-> 0]
    /\ delayDays = 0
    /\ lines = <<>>
    /\ marks = NoMarks(<<>>)
    /\ prior = <<>>
    /\ result = <<>>
    /\ count = 0
    /\ archivable = <<>>
    /\ TreesIdle /\ TuiIdle /\ GitIdle

\* the user saves the tasks file from an editor
EditTasks ==
    /\ \E c \in HistoryContents : tasksFile' = File(c)
    /\ op' = "edit"
    /\ UNCHANGED <<archiveFile, before, err, wrote, runs>>
    /\ UNCHANGED <<content, clock, delayDays, lines, marks, prior, result, count, archivable>>
    /\ UNCHANGED <<treeVars, tuiVars, gitVars>>

\* midnight passes
NextDay ==
    /\ clock.day < MaxDay
    /\ clock' = [clock EXCEPT !.day = @ + 1]
    /\ op' = "day"
    /\ UNCHANGED fileVars
    /\ UNCHANGED <<content, delayDays, lines, marks, prior, result, count, archivable>>
    /\ UNCHANGED <<treeVars, tuiVars, gitVars>>

\* Archive(tasksPath, archivePath, d), run once more
ArchiveAgain ==
    /\ runs < MaxRuns
    /\ runs' = runs + 1
    /\ \E d \in Delays :
         /\ delayDays' = d
         /\ Leave(Archive(tasksFile, archiveFile, d, clock))
    /\ op' = "archive"
    /\ UNCHANGED <<content, clock, lines, marks, prior, result, archivable>>
    /\ UNCHANGED <<treeVars, tuiVars, gitVars>>

HistoryNext == EditTasks \/ NextDay \/ ArchiveAgain

HistorySpec == HistoryInit /\ [][HistoryNext]_vars

\* ------------------------------------------- Archive on files it cannot write
\* Archive is run on a tasks file and an archive file either of which may be
\* read-only, and then once more, on the same day with the same delayDays,
\* with or without the permissions having been put right in between.
RetryInit ==
    /\ \E c \in FileContents, w \in BOOLEAN :
         tasksFile = IF w THEN File(c) ELSE ReadOnly(File(c))
    /\ archiveFile \in {NoFile, File(OldArchive), ReadOnly(File(OldArchive))}
    /\ before = [tasks |-> tasksFile, archive |-> archiveFile]
    /\ err = NoError
    /\ wrote = {}
    /\ runs = 0
    /\ content = tasksFile.data      \* the tasks file at the start
    /\ op = "none"
    /\ clock = [day |-> MaxDay, tick |-> 0]
    /\ delayDays \in {0, MaxDelay}
    /\ lines = <<>>
    /\ marks = NoMarks(<<>>)
    /\ prior = archiveFile.data      \* the archive file at the start
    /\ result = <<>>
    /\ count = 0
    /\ archivable = <<>>
    /\ TreesIdle /\ TuiIdle /\ GitIdle

RetryFrame ==
    /\ UNCHANGED <<content, clock, delayDays, lines, marks, prior, result, archivable>>
    /\ UNCHANGED <<treeVars, tuiVars, gitVars>>

\* Archive(tasksPath, archivePath, delayDays)
ArchiveFirst ==
    /\ op = "none"
    /\ Leave(Archive(tasksFile, archiveFile, delayDays, clock))
    /\ runs' = 1
    /\ op' = IF Archive(tasksFile, archiveFile, delayDays, clock).err = NoError
             THEN "archive" ELSE "failed"
    /\ RetryFrame

\* the user gives back the permission to write the two files
MakeWritable ==
    /\ op = "failed"
    /\ tasksFile' = [tasksFile EXCEPT !.writable = TRUE]
    /\ archiveFile' = [archiveFile EXCEPT !.writable = TRUE]
    /\ op' = "writable"
    /\ UNCHANGED <<before, err, wrote, runs, count>>
    /\ RetryFrame

\* Archive(tasksPath, archivePath, delayDays) once more
ArchiveRetry ==
    /\ op \in {"archive", "failed", "writable"}
    /\ Leave(Archive(tasksFile, archiveFile, delayDays, clock))
    /\ runs' = runs + 1
    /\ op' = IF op = "archive" THEN "again" ELSE "retry"
    /\ RetryFrame

RetryNext == ArchiveFirst \/ MakeWritable \/ ArchiveRetry

RetrySpec == RetryInit /\ [][RetryNext]_vars

\* ------------------------------------------- the terminal interface running
\* The bubbletea runtime calls Init, runs every command it is returned on a
\* goroutine of its own, and passes the messages the commands and the
\* terminal send to Update one at a time, in the order it receives them from
\* an unbuffered channel: any waiting message can be the next.
TuiContents == {Tagged(BoxLower, 0), <<DASH, BoxUpper>>}

Keys == {"q", "ctrl+c", "e", "a", "r", "?", "h", "j"}

Pending == BagCardinality(cmds) + BagCardinality(msgs)

\* runTUI: the model is made from the tasks file as it is read at startup
TuiInit ==
    /\ tasksFile \in {File(c) : c \in TuiContents}
    /\ archiveFile = NoFile
    /\ \E auto \in BOOLEAN : model = New(tasksFile.data, auto, MaxDelay)
    /\ cmds = EmptyBag
    /\ msgs = EmptyBag
    /\ last = NoUpdate
    /\ archiveRuns = {}
    /\ GitIdle
    /\ before = [tasks |-> NoFile, archive |-> NoFile]
    /\ err = NoError
    /\ wrote = {}
    /\ runs = 0
    /\ content = <<>>
    /\ op = "new"
    /\ clock = [day |-> MaxDay, tick |-> 0]
    /\ delayDays = 0
    /\ lines = <<>>
    /\ marks = NoMarks(<<>>)
    /\ prior = <<>>
    /\ result = <<>>
    /\ count = 0
    /\ archivable = <<>>
    /\ TreesIdle

TuiFrame ==
    /\ UNCHANGED <<content, clock, delayDays, lines, marks, prior, result, count, archivable>>
    /\ UNCHANGED <<before, err, wrote>>
    /\ UNCHANGED <<treeVars, gitVars>>

\* the runtime calls Model.Init
Start ==
    /\ op = "new"
    /\ op' = "running"
    /\ cmds' = cmds (+) SetToBag({ModelInit(model)})
    /\ runs' = IF model.auto THEN runs + 1 ELSE runs
    /\ UNCHANGED <<model, msgs, last, archiveRuns, tasksFile, archiveFile>>
    /\ TuiFrame

\* Update(msg): the model and the command it returns
Deliver(msg) ==
    LET r == Update(model, msg) IN
      /\ model' = r.model
      /\ cmds' = IF r.cmd = NoCmd THEN cmds ELSE cmds (+) SetToBag({r.cmd})
      /\ last' = Updated(msg, r.cmd)

\* a message a command sent is passed to Update
Receive(type) ==
    /\ op = "running"
    /\ \E msg \in BagToSet(msgs) :
         /\ msg.type = type
         /\ msgs' = msgs (-) SetToBag({msg})
         /\ Deliver(msg)
    /\ UNCHANGED <<archiveRuns, tasksFile, archiveFile, op, runs>>
    /\ TuiFrame

\* the user presses a key; a key that starts a command is pressed when there
\* is room for it
Press(room) ==
    /\ op = "running"
    /\ \E key \in Keys :
         LET c == Update(model, KeyMsg(key)).cmd IN
           /\ c # NoCmd => room
           /\ c.kind = "archive" => runs < MaxArchiveKeys
           /\ runs' = IF c.kind = "archive" THEN runs + 1 ELSE runs
           /\ Deliver(KeyMsg(key))
    /\ UNCHANGED <<msgs, archiveRuns, tasksFile, archiveFile, op>>
    /\ TuiFrame

KeyPress == Press(Pending < MaxPending)

EditFinished == Receive("EditFinishedMsg")

ArchiveFinished == Receive("ArchiveFinishedMsg")

ReloadFinished == Receive("ReloadFinishedMsg")

AddDoneTagsFinished == Receive("AddDoneTagsFinishedMsg")

ClearStatus == Receive("ClearStatusMsg")

\* a command has run and sends its message
Send(c, msg) ==
    /\ cmds' = cmds (-) SetToBag({c})
    /\ msgs' = msgs (+) SetToBag({msg})

\* archiveCmd's function ends with outcome r: the files as it leaves them and
\* the ArchiveFinishedMsg{Count, Err} it returns
ArchiveDone(c, r) ==
    /\ tasksFile' = r.tasks
    /\ archiveFile' = r.archive
    /\ archiveRuns' = archiveRuns \cup {<<c.origin, r.count>>}
    /\ Send(c, Msg("ArchiveFinishedMsg", "", r.count, r.err, <<>>, c.origin))

\* the function archiveCmd returned runs
RunArchive ==
    /\ op = "running"
    /\ \E c \in BagToSet(cmds) :
         /\ c.kind = "archive"
         /\ ArchiveDone(c, archiveCmd(tasksFile, archiveFile, model.delayDays, clock))
    /\ UNCHANGED <<model, last, op, runs>>
    /\ TuiFrame

\* the function reloadCmd returned runs
RunReload ==
    /\ op = "running"
    /\ \E c \in BagToSet(cmds) :
         /\ c.kind = "reload"
         /\ LET l == LoadFile(tasksFile) IN
              Send(c, Msg("ReloadFinishedMsg", "", 0, l.err, l.content, c.origin))
    /\ UNCHANGED <<model, last, op, runs, archiveRuns, tasksFile, archiveFile>>
    /\ TuiFrame

\* the function addDoneTagsCmd or addDoneTagsAndReloadCmd returned runs
RunAddDoneTags ==
    /\ op = "running"
    /\ \E c \in BagToSet(cmds) :
         /\ c.kind \in {"addDoneTags", "addDoneTagsAndReload"}
         /\ LET r == ProcessFileWithDoneTags(tasksFile, archiveFile, clock) IN
              /\ tasksFile' = r.tasks
              /\ Send(c, Msg("AddDoneTagsFinishedMsg", "", r.count, r.err, <<>>, ""))
    /\ UNCHANGED <<model, last, op, runs, archiveRuns, archiveFile>>
    /\ TuiFrame

\* the editor editCmd started runs and exits: the user saved the tasks file
\* or left it, or the editor could not be run
RunEditor ==
    /\ op = "running"
    /\ \E c \in BagToSet(cmds) :
         /\ c.kind = "edit"
         /\ \/ /\ \E saved \in TuiContents \cup {tasksFile.data} : tasksFile' = File(saved)
               /\ Send(c, Msg("EditFinishedMsg", "", 0, NoError, <<>>, ""))
            \/ /\ tasksFile' = tasksFile
               /\ Send(c, Msg("EditFinishedMsg", "", 0, "exec", <<>>, ""))
    /\ UNCHANGED <<model, last, op, runs, archiveRuns, archiveFile>>
    /\ TuiFrame

\* statusTimeout has passed since setStatusWithTimeout
Tick ==
    /\ op = "running"
    /\ \E c \in BagToSet(cmds) :
         /\ c.kind = "tick"
         /\ Send(c, Msg("ClearStatusMsg", "", 0, NoError, <<>>, c.origin))
    /\ UNCHANGED <<model, last, op, runs, archiveRuns, tasksFile, archiveFile>>
    /\ TuiFrame

\* tea.Quit: the program ends
Quit ==
    /\ op = "running"
    /\ \E c \in BagToSet(cmds) : c.kind = "quit"
    /\ op' = "quit"
    /\ UNCHANGED <<model, cmds, msgs, last, runs, archiveRuns, tasksFile, archiveFile>>
    /\ TuiFrame

TuiNext ==
    \/ Start \/ KeyPress
    \/ EditFinished \/ ArchiveFinished \/ ReloadFinished \/ AddDoneTagsFinished \/ ClearStatus
    \/ RunArchive \/ RunReload \/ RunAddDoneTags \/ RunEditor \/ Tick \/ Quit

TuiSpec == TuiInit /\ [][TuiNext]_vars

\* ---------------------------------------------------------- status timeouts
\* the status timeouts that have not ended: the ticks that run and the
\* ClearStatusMsg that wait for Update
Timeouts ==
    LET ticks == {c \in BagToSet(cmds) : c.kind = "tick"}
        clears == {msg \in BagToSet(msgs) : msg.type = "ClearStatusMsg"}
    IN BagCardinality([c \in ticks |-> cmds[c]])
         + BagCardinality([msg \in clears |-> msgs[msg]])

\* the user presses a key while the timeout of a status is pending: no other
\* command is in flight, and the pending timeouts are fewer than MaxTimeouts
KeyPressEarly == Press(Pending - Timeouts < MaxPending /\ Timeouts < MaxTimeouts)

StatusNext ==
    \/ Start \/ KeyPressEarly
    \/ EditFinished \/ ArchiveFinished \/ ReloadFinished \/ AddDoneTagsFinished \/ ClearStatus
    \/ RunArchive \/ RunReload \/ RunAddDoneTags \/ RunEditor \/ Tick \/ Quit

StatusSpec == TuiInit /\ [][StatusNext]_vars

\* ---------------------------------------------------------------- git sync
\* Sync runs git commands one after another.  The repository is [origin,
\* dirty]: whether the remote origin is configured and whether the working
\* tree has uncommitted changes.  Whether a command fails is git's matter, so
\* each command's outcome is drawn from the outcomes Sync tells apart.

\* cmd.CombinedOutput() of git pull: err != nil, and whether the output
\* contains "CONFLICT"
PullOutcomes == [failed : BOOLEAN, conflict : BOOLEAN]

Ran(cmd, out) == [cmd |-> cmd, out |-> out]

\* Sync has run cmd with outcome out and goes on to pc
Running(s, cmd, out, pc) ==
    [s EXCEPT !.ran = Append(@, Ran(cmd, out)), !.pc = pc]

\* Sync has run cmd with outcome out and returns e
Returning(s, cmd, out, e) ==
    [s EXCEPT !.ran = Append(@, Ran(cmd, out)), !.pc = "returned", !.err = e]

\* as MergeConflict, but no pull failure is taken for a merge conflict
MergeConflictNever(out) == FALSE

\* err != nil && strings.Contains(outputStr, "CONFLICT")
MergeConflict(out) == out.failed /\ out.conflict

\* as HasChanges, but an empty status output counts as changes too
HasChangesAlways(out) == TRUE

\* len(strings.TrimSpace(string(output))) > 0
HasChanges(out) == out = "dirty"

\* Sync touches only the repository
GitFrame == UNCHANGED <<engineVars, treeVars, fileVars, tuiVars>>

\* ttt remote <url>: git remote add, or set-url when origin exists
SetRemote ==
    /\ sync.pc \in {"new", "returned"}
    /\ \E ok \in BOOLEAN : repo' = IF ok THEN [repo EXCEPT !.origin = TRUE] ELSE repo
    /\ UNCHANGED sync
    /\ GitFrame

\* ttt sync calls Sync(dir)
Sync ==
    /\ sync.pc \in {"new", "returned"}
    /\ sync.n < MaxSyncs
    /\ sync' = [pc |-> "HasRemote", ran |-> <<>>, err |-> NoError, n |-> sync.n + 1]
    /\ UNCHANGED repo
    /\ GitFrame

\* HasRemote(dir, "origin"): git remote get-url origin
HasRemote ==
    /\ sync.pc = "HasRemote"
    /\ sync' = IF repo.origin
               THEN Running(sync, "remote get-url", TRUE, "GetCurrentBranch")
               ELSE Returning(sync, "remote get-url", FALSE, "no remote")
    /\ UNCHANGED repo
    /\ GitFrame

\* GetCurrentBranch(dir): git rev-parse --abbrev-ref HEAD
GetCurrentBranch ==
    /\ sync.pc = "GetCurrentBranch"
    /\ \E ok \in BOOLEAN :
         sync' = IF ok THEN Running(sync, "rev-parse", ok, "pull")
                 ELSE Returning(sync, "rev-parse", ok, "failed to get current branch")
    /\ UNCHANGED repo
    /\ GitFrame

\* git pull origin <branch>; a merge that stops on conflicts leaves them in
\* the working tree
GitPull ==
    /\ sync.pc = "pull"
    /\ \E out \in PullOutcomes :
         /\ sync' = IF MergeConflict(out)
                    THEN Returning(sync, "pull", out, "merge conflict detected")
                    ELSE Running(sync, "pull", out, "status")
         /\ repo' = IF out.failed /\ out.conflict THEN [repo EXCEPT !.dirty = TRUE] ELSE repo
    /\ GitFrame

\* git status --porcelain
GitStatus ==
    /\ sync.pc = "status"
    /\ \E out \in {"fail", IF repo.dirty THEN "dirty" ELSE "clean"} :
         sync' = IF out = "fail"
                 THEN Returning(sync, "status", out, "failed to check status")
                 ELSE Running(sync, "status", out, IF HasChanges(out) THEN "add" ELSE "push")
    /\ UNCHANGED repo
    /\ GitFrame

\* git add -A
GitAdd ==
    /\ sync.pc = "add"
    /\ \E ok \in BOOLEAN :
         sync' = IF ok THEN Running(sync, "add", ok, "commit")
                 ELSE Returning(sync, "add", ok, "failed to stage changes")
    /\ UNCHANGED repo
    /\ GitFrame

\* git commit -m "Sync changes"
GitCommit ==
    /\ sync.pc = "commit"
    /\ \E ok \in BOOLEAN :
         /\ sync' = IF ok THEN Running(sync, "commit", ok, "push")
                    ELSE Returning(sync, "commit", ok, "failed to commit")
         /\ repo' = IF ok THEN [repo EXCEPT !.dirty = FALSE] ELSE repo
    /\ GitFrame

\* git push -u origin <branch>
GitPush ==
    /\ sync.pc = "push"
    /\ \E ok \in BOOLEAN :
         sync' = Returning(sync, "push", ok, IF ok THEN NoError ELSE "push failed")
    /\ UNCHANGED repo
    /\ GitFrame



GitInit ==
    /\ repo \in [origin : BOOLEAN, dirty : BOOLEAN]
    /\ sync = [pc |-> "new", ran |-> <<>>, err |-> NoError, n |-> 0]
    /\ content = <<>>
    /\ op = "none"
    /\ clock = [day |-> 0, tick |-> 0]
    /\ delayDays = 0
    /\ lines = <<>>
    /\ marks = NoMarks(<<>>)
    /\ prior = <<>>
    /\ result = <<>>
    /\ count = 0
    /\ archivable = <<>>
    /\ TreesIdle /\ FilesIdle /\ TuiIdle

GitNext ==
    \/ SetRemote \/ Sync \/ HasRemote \/ GetCurrentBranch
    \/ GitPull \/ GitStatus \/ GitAdd \/ GitCommit \/ GitPush

GitSpec == GitInit /\ [][GitNext]_vars

\* ------------------------------------------ the two stages of ProcessContent
\* the slice and the count as a stage of ProcessContent leaves them
Stage(st) ==
    /\ lines' = st.lines
    /\ count' = st.count
    /\ result' = ReconstructContent(st.lines)

\* lines, cascadeCount := CascadeCompletion(ParseLines(content), today)
Cascade ==
    /\ op = "none"
    /\ \E now \in Clocks :
         /\ now.tick = 0
         /\ clock' = now
         /\ Stage(CascadeCompletion(ParseLines(content), FormatToday(now)))
    /\ op' = "cascade"
    /\ UNCHANGED <<content, delayDays, marks, prior, archivable>>
    /\ UNCHANGED <<treeVars, fileVars, tuiVars, gitVars>>

\* the loop of ProcessContent that tags the completed lines without a tag
Sweep ==
    /\ op = "cascade"
    /\ Stage(TagSweep([lines |-> lines, count |-> count], 1, FormatToday(clock)))
    /\ prior' = result
    /\ op' = "process"
    /\ UNCHANGED <<content, clock, delayDays, marks, archivable>>
    /\ UNCHANGED <<treeVars, fileVars, tuiVars, gitVars>>

StagesNext == Cascade \/ Sweep

StagesSpec == Init /\ [][StagesNext]_vars

\* ------------------------------------------------- vocabulary of the claims
\* the indentation forest, stated without a stack: the parent of a task line is
\* the nearest earlier task line of strictly smaller indent (0: none, a root)
NearestParent(ls, i) ==
    LET c == {k \in 1..(i - 1) : ls[k].IsTask /\ ls[k].Indent < ls[i].Indent} IN
      IF c = {} THEN 0 ELSE CHOOSE k \in c : \A m \in c : m <= k

RECURSIVE Ancestors(_, _)
Ancestors(ls, i) ==
    LET p == NearestParent(ls, i) IN
      IF p = 0 THEN {} ELSE {p} \cup Ancestors(ls, p)

RECURSIVE RootOf(_, _)
RootOf(ls, i) ==
    LET p == NearestParent(ls, i) IN IF p = 0 THEN i ELSE RootOf(ls, p)

Tasks(ls) == {i \in 1..Len(ls) : ls[i].IsTask}

NonTasks(ls) == {i \in 1..Len(ls) : ~ls[i].IsTask}

NewlineCount(c) == Cardinality({i \in 1..Len(c) : c[i] = NL})

\* the k-th smallest member of a set of positions
KthOf(S, k) == CHOOSE i \in S : Cardinality({x \in S : x < i}) = k - 1

\* the members of a set of positions, in order, as the texts of those lines
TextsAt(ls, S) == [k \in 1..Cardinality(S) |-> ls[KthOf(S, k)].Content]

\* the calendar day the first @done tag of a line spells
TagDay(line) ==
    line[CHOOSE i \in doneTagPattern(line) : \A k \in doneTagPattern(line) : i <= k][2]

\* a root that is completed and whose own tag date is before the cutoff
RootQualifies(ls, r) ==
    /\ ls[r].IsCompleted
    /\ ParseDoneDate(ls[r].Content).found
    /\ Before(ParseDoneDate(ls[r].Content).date, Cutoff(clock, delayDays))

\* the archived task lines whose span of deeper lines reaches line j
SweptBy(ls, j) ==
    {i \in 1..(j - 1) : /\ ls[i].IsTask
                        /\ i \in marks.archiveSet
                        /\ \A k \in (i + 1)..j : ls[k].Indent > ls[i].Indent}

\* a line of the archive file that is a section header, and the day it names
IsHeader(line) == Len(line) = 1 /\ line[1][1] = "##"

HeaderDay(line) == line[1][2]

\* the calendar days the GroupDates of a list of entries fall on
GroupDays(es) == {FormatDate(es[k].GroupDate) : k \in 1..Len(es)}

\* the positions of the entries whose GroupDate falls on a day
EntriesOfDay(es, d) == {k \in 1..Len(es) : FormatDate(es[k].GroupDate) = d}

\* what FilterArchivable makes of the tasks file the last operation found
Partitioned == FilterArchivable(before.tasks.data, delayDays, clock)

\* the texts a sequence of texts holds, and how often it holds one
Texts(seq) == {seq[k] : k \in 1..Len(seq)}

Occurs(seq, t) == Cardinality({k \in 1..Len(seq) : seq[k] = t})

\* the completed task lines of a content string that carry no completion tag
Untagged(c) ==
    {k \in 1..Len(ParseLines(c)) :
       ParseLines(c)[k].IsCompleted /\ ~ParseLines(c)[k].HasDoneTag}

\* a sequence of positions in file order, and the positions it holds
Ascending(seq) == \A a, b \in 1..Len(seq) : a < b => seq[a] < seq[b]

Elems(seq) == {seq[k] : k \in 1..Len(seq)}

\* the position a task line has among the task lines alone
TaskRank(ls, i) == Cardinality({k \in Tasks(ls) : k <= i})

\* a step in which Update is passed a key press: the one step that records an
\* Update without taking a message from those waiting
KeyStep ==
    /\ op = "running" /\ op' = "running"
    /\ msgs' = msgs
    /\ last'.type = "KeyMsg"

\* ------------------------------------------------------------------ claims
\* C1: for every content string, with or without a trailing newline and the
\* empty string included, ReconstructContent(ParseLines(content)) is content
\* exactly, ParseLines returns one line per newline plus one, none holding a
\* newline, and the i-th line carries LineNumber i (counted from 0).
C1_RoundTrip ==
    op = "parse" =>
      /\ result = content
      /\ Len(lines) = NewlineCount(content) + 1
      /\ \A k \in 1..Len(lines) :
           /\ lines[k].LineNumber = k - 1
           /\ NewlineCount(lines[k].Content) = 0

C1_Witness ==
    /\ op = "parse"
    /\ Len(lines) = MaxLines
    /\ lines[Len(lines)].Content = <<>>
    /\ content[Len(content)] = NL
    /\ result = content

\* C2: ProcessContent is idempotent: applied, on the same day, to the content
\* a ProcessContent returned, it returns that content unchanged and count 0.
C2_Idempotent ==
    op = "reprocess" => result = prior /\ count = 0

C2_Witness ==
    /\ op = "reprocess"
    /\ prior # content
    /\ result = prior
    /\ \E i \in 1..Len(lines) : Cardinality(doneTagPattern(lines[i].Content)) = 2

\* C3: after ProcessContent every task line below a completed task line, at
\* any depth and whether or not that line is a root, is completed and carries
\* a completion tag; a task line that was incomplete on input and has no
\* completed ancestor on input stays incomplete.
C3_Cascade ==
    op = "process" =>
      LET inL == ParseLines(content)
          outL == ParseLines(result)
      IN /\ Len(outL) = Len(inL)
         /\ \A j \in Tasks(outL) : \A i \in Ancestors(outL, j) :
              outL[i].IsCompleted => outL[j].IsCompleted /\ outL[j].HasDoneTag
         /\ \A j \in Tasks(inL) :
              (~inL[j].IsCompleted /\ \A i \in Ancestors(inL, j) : ~inL[i].IsCompleted)
                => outL[j].IsTask /\ ~outL[j].IsCompleted

C3_Witness ==
    /\ op = "process"
    /\ LET inL == ParseLines(content)
           outL == ParseLines(result)
       IN \E j \in Tasks(inL) :
            /\ Cardinality(Ancestors(inL, j)) = 2
            /\ ~inL[j].IsCompleted
            /\ ~inL[RootOf(inL, j)].IsCompleted
            /\ inL[NearestParent(inL, j)].IsCompleted
            /\ outL[j].IsCompleted /\ outL[j].HasDoneTag
            /\ ~outL[RootOf(inL, j)].IsCompleted

\* C4: the count ProcessContent returns is the number of lines whose text
\* differs between its input and its output: a line the cascade or the tag
\* sweep changed is counted once, and none is counted by both.
C4_CountIsChangedLines ==
    op = "process" =>
      LET inL == ParseLines(content)
          outL == ParseLines(result)
      IN /\ Len(outL) = Len(inL)
         /\ count = Cardinality({i \in 1..Len(inL) : inL[i].Content # outL[i].Content})

C4_Witness ==
    /\ op = "process"
    /\ count = 2
    /\ LET inL == ParseLines(content) IN
         /\ Len(inL) = 2
         /\ inL[1].IsCompleted /\ ~inL[1].HasDoneTag
         /\ inL[2].IsTask /\ ~inL[2].IsCompleted /\ NearestParent(inL, 2) = 1

\* C5: in FilterArchivable a task line is archived if and only if the root of
\* its tree is completed, carries a completion tag and the root's own tag date
\* is before the cutoff; the completion state and tag date of the line itself
\* play no part unless the line is that root.
C5_ArchiveGating ==
    op = "filter" =>
      \A i \in Tasks(lines) :
        i \in marks.archiveSet <=> RootQualifies(lines, RootOf(lines, i))

C5_Witness ==
    /\ op = "filter"
    /\ \E i \in Tasks(lines) :
         /\ RootOf(lines, i) # i
         /\ RootQualifies(lines, i)
         /\ lines[RootOf(lines, i)].IsCompleted
         /\ ParseDoneDate(lines[RootOf(lines, i)].Content).found
         /\ i \notin marks.archiveSet

\* C6: cutoff boundary: at whatever time of day FilterArchivable runs, a
\* completed root task whose tag date is the day of the run less delayDays is
\* not archived, and one whose tag date is one day earlier is archived.
C6_CutoffBoundary ==
    op = "filter" =>
      \A i \in Tasks(lines) :
        (/\ RootOf(lines, i) = i
         /\ lines[i].IsCompleted
         /\ ParseDoneDate(lines[i].Content).found)
        => /\ TagDay(lines[i].Content) = clock.day - delayDays
                => i \notin marks.archiveSet
           /\ TagDay(lines[i].Content) = clock.day - delayDays - 1
                => i \in marks.archiveSet

\* C7: every entry FilterArchivable returns, task line or swept non-task
\* line, has as GroupDate the tag date of the root of the tree it was archived
\* with, not its own tag date.
C7_GroupDateIsRootDate ==
    op = "filter" =>
      /\ Len(archivable) = Cardinality(marks.archiveSet)
      /\ \A k \in 1..Len(archivable) :
           LET i == KthOf(marks.archiveSet, k) IN
             /\ archivable[k].Content = lines[i].Content
             /\ archivable[k].GroupDate = marks.groupDates[i]
             /\ lines[i].IsTask =>
                  archivable[k].GroupDate =
                    ParseDoneDate(lines[RootOf(lines, i)].Content).date
             /\ ~lines[i].IsTask =>
                  /\ SweptBy(lines, i) # {}
                  /\ \A t \in SweptBy(lines, i) :
                       archivable[k].GroupDate =
                         ParseDoneDate(lines[RootOf(lines, t)].Content).date

C7_Witness ==
    /\ op = "filter"
    /\ Len(archivable) = 3
    /\ lines[2].IsTask /\ RootOf(lines, 2) = 1
    /\ ParseDoneDate(lines[2].Content).found
    /\ ParseDoneDate(lines[2].Content).date # ParseDoneDate(lines[1].Content).date
    /\ ~lines[3].IsTask /\ SweptBy(lines, 3) = {1, 2}
    /\ archivable[2].GroupDate = ParseDoneDate(lines[1].Content).date
    /\ archivable[3].GroupDate = ParseDoneDate(lines[1].Content).date

C9_ChildNodesMoveWithRoot ==
    op = "filter" =>
      \A i \in Tasks(lines) :
        (RootOf(lines, i) = i /\ i \in marks.archiveSet) =>
          \A j \in NonTasks(lines) :
            (/\ j > i
             /\ lines[j].Indent > lines[i].Indent
             /\ \A k \in (i + 1)..(j - 1) :
                  lines[k].IsTask => lines[k].Indent > lines[i].Indent)
            => j \in marks.archiveSet

\* C10: FilterArchivable is an order-preserving partition: the texts of some
\* set of input lines, in order and unchanged, are the entries, the texts of
\* the other lines, in order and unchanged, joined by newlines are the
\* remaining content; when no line is archived the remaining content is the
\* input content exactly.
C10_Partition ==
    op = "filter" =>
      LET inL == ParseLines(content)
          all == 1..Len(inL)
      IN /\ \E S \in SUBSET all :
              /\ [k \in 1..Len(archivable) |-> archivable[k].Content] = TextsAt(inL, S)
              /\ result = StringsJoin(TextsAt(inL, all \ S), <<NL>>)
         /\ archivable = <<>> => result = content

C10_Witness ==
    /\ op = "filter"
    /\ Len(lines) = 3
    /\ marks.archiveSet = {1, 3}
    /\ Len(archivable) = 2
    /\ archivable[2].Content = lines[3].Content
    /\ result = lines[2].Content

\* C11: FormatArchiveEntry emits one section per distinct date among the
\* GroupDates, the sections in strictly descending date order whatever the
\* order of the input; a section is the header line of its date, a blank line,
\* the texts of the entries of that date unchanged and in their input order,
\* one per line, and a blank line; every entry is in exactly one section, and
\* no entries give the empty string.
C11_Sections ==
    op = "format" =>
      IF Len(archivable) = 0 THEN result = <<>>
      ELSE LET out == StringsSplit(result)
               hdrs == {i \in 1..Len(out) : IsHeader(out[i])}
           IN /\ 1 \in hdrs
              /\ out[Len(out)] = <<>>
              /\ {HeaderDay(out[i]) : i \in hdrs} = GroupDays(archivable)
              /\ Cardinality(hdrs) = Cardinality(GroupDays(archivable))
              /\ Len(out) = 3 * Cardinality(hdrs) + Len(archivable) + 1
              /\ \A i, j \in hdrs : i < j => HeaderDay(out[i]) > HeaderDay(out[j])
              /\ \A i \in hdrs :
                   LET S == EntriesOfDay(archivable, HeaderDay(out[i]))
                       n == Cardinality(S)
                   IN /\ out[i + 1] = <<>>
                      /\ \A k \in 1..n : out[i + 1 + k] = archivable[KthOf(S, k)].Content
                      /\ out[i + 2 + n] = <<>>
                      /\ (i + 3 + n) \in hdrs \/ i + 3 + n = Len(out)

C11_Witness ==
    /\ op = "format"
    /\ Len(archivable) = 3
    /\ FormatDate(archivable[1].GroupDate) < FormatDate(archivable[2].GroupDate)
    /\ archivable[3].GroupDate = archivable[1].GroupDate
    /\ archivable[3].Content # archivable[1].Content
    /\ result[1] = Header(FormatDate(archivable[2].GroupDate))
    /\ Len(result) > 0 /\ result[Len(result)] = NL

\* C12: when Archive succeeds and at least one line is archivable, afterwards
\* the archive file holds FormatArchiveEntry of the entries followed by what
\* it held before (nothing if it was absent), the tasks file holds the
\* remaining content exactly, every archived line is gone from the tasks file
\* (each text occurs there as often as before less its occurrences among the
\* entries), and the count returned is the number of archived lines, task
\* lines and swept non-task lines together.
C12_ArchiveMoves ==
    (op = "archive" /\ err = NoError /\ Partitioned.archivable # <<>>) =>
      LET f == Partitioned
          inTexts == StringsSplit(before.tasks.data)
          outTexts == IF Len(f.archivable) = Len(inTexts) THEN <<>>
                      ELSE StringsSplit(tasksFile.data)
          gone == [k \in 1..Len(f.archivable) |-> f.archivable[k].Content]
          m == ArchiveMarks(before.tasks.data, delayDays, clock)
          ls == ParseLines(before.tasks.data)
      IN /\ archiveFile = File(FormatArchiveEntry(f.archivable) \o before.archive.data)
         /\ tasksFile = File(f.remaining)
         /\ \A t \in Texts(inTexts) \cup Texts(outTexts) :
              Occurs(outTexts, t) = Occurs(inTexts, t) - Occurs(gone, t)
         /\ count = Len(f.archivable)
         /\ count = Cardinality(m.archiveSet \cap Tasks(ls))
                      + Cardinality(m.archiveSet \cap NonTasks(ls))
         /\ count > 0

C12_Witness ==
    /\ op = "archive"
    /\ err = NoError
    /\ count = 2
    /\ before.archive.exists
    /\ Len(before.archive.data) > 0
    /\ Len(tasksFile.data) > 0
    /\ \E k \in 1..Len(Partitioned.archivable) : ~IsTask(Partitioned.archivable[k].Content)

\* C13: when no line of the tasks file is archivable, Archive returns 0 and
\* no error and writes neither file: the tasks file is as it was, and an
\* archive file that was absent is still absent.
C13_NothingToArchive ==
    (op = "archive" /\ before.tasks.exists /\ Partitioned.archivable = <<>>) =>
      /\ count = 0
      /\ err = NoError
      /\ wrote = {}
      /\ tasksFile = before.tasks
      /\ archiveFile = before.archive

C13_Witness ==
    /\ op = "archive"
    /\ before.tasks.exists
    /\ Partitioned.archivable = <<>>
    /\ \E k \in 1..Len(ParseLines(before.tasks.data)) :
         LET l == ParseLines(before.tasks.data)[k] IN
           l.IsCompleted /\ ParseDoneDate(l.Content).found
    /\ ~before.archive.exists
    /\ ~archiveFile.exists
    /\ count = 0

\* C14, as stated: after Archive returns without error no completed task of
\* the tasks file lacks a completion tag.
C14_ArchiveTagsFirst ==
    (op = "archive" /\ err = NoError) => Untagged(tasksFile.data) = {}

\* C14, amended: it is archiveCmd that tags first.  It runs the tagger (with
\* the cascade) on the tasks file, saving the file if a line changed, and then
\* Archive on the file as the tagger left it; so after archiveCmd returns
\* without error no completed task of the tasks file lacks a completion tag.
C14_ArchiveCmdTagsFirst ==
    (op = "archiveCmd" /\ err = NoError) =>
      LET p == ProcessContent(before.tasks.data, clock)
          f == FilterArchivable(p.content, delayDays, clock)
      IN /\ Untagged(tasksFile.data) = {}
         /\ p.count > 0 => "tasks" \in wrote
         /\ count = Len(f.archivable)
         /\ tasksFile.data = IF Len(f.archivable) = 0 THEN p.content ELSE f.remaining

C14_Witness ==
    /\ op = "archiveCmd"
    /\ err = NoError
    /\ Untagged(before.tasks.data) # {}
    /\ count > 0
    /\ \E k \in 1..Len(ParseLines(tasksFile.data)) :
         LET l == ParseLines(tasksFile.data)[k] IN
           l.IsCompleted /\ l.HasDoneTag /\ TagDay(l.Content) = clock.day

\* C15: a line whose @done tags all spell digits that are no calendar date is
\* classified as having no completion tag, so that a completed task that
\* carries only such a tag gets a tag of today appended by ProcessContent.
C15_InvalidDateIsNoTag ==
    op = "process" =>
      \A k \in 1..Len(ParseLines(content)) :
        LET l == ParseLines(content)[k] IN
          (/\ l.IsCompleted
           /\ doneTagPattern(l.Content) # {}
           /\ \A i \in doneTagPattern(l.Content) : ~TimeParse(l.Content[i][2]).ok)
          => /\ ~l.HasDoneTag
             /\ ParseLines(result)[k].Content = AppendDoneTag(l.Content, FormatToday(clock))

\* C16: starting from an absent archive file, after any sequence of runs of
\* Archive, with the tasks file edited between runs and the clock never going
\* back, the section headers of the archive file are in newest-first order
\* from top to bottom: no header has a later date than a header above it.
C16_HeadersNewestFirst ==
    LET out == StringsSplit(archiveFile.data)
        hdrs == {i \in 1..Len(out) : IsHeader(out[i])}
    IN \A i, j \in hdrs : i < j => HeaderDay(out[i]) >= HeaderDay(out[j])

\* C17: the forest BuildTaskTrees builds with its stack is the forest of the
\* definition: the parent of a task line is the nearest task line before it
\* of strictly smaller indent, a task line with none is a root, roots and
\* children are in file order; and the non-task lines between task lines, of
\* whatever indent, change no relation: without them the task lines have the
\* same roots, the same children and the same order.
C17_ForestIsNearestParent ==
    /\ op \in {"build", "bare"} =>
         /\ Ascending(taskTrees.forest)
         /\ Elems(taskTrees.forest) = {i \in Tasks(lines) : NearestParent(lines, i) = 0}
         /\ \A k \in 1..Len(lines) :
              /\ Ascending(taskTrees.children[k])
              /\ Elems(taskTrees.children[k]) =
                   IF lines[k].IsTask
                   THEN {i \in Tasks(lines) : NearestParent(lines, i) = k}
                   ELSE {}
    /\ op = "bare" =>
         /\ bareTrees.forest =
              [n \in 1..Len(taskTrees.forest) |-> TaskRank(lines, taskTrees.forest[n])]
         /\ \A i \in Tasks(lines) :
              bareTrees.children[TaskRank(lines, i)] =
                [n \in 1..Len(taskTrees.children[i]) |->
                   TaskRank(lines, taskTrees.children[i][n])]

C17_Witness ==
    /\ op = "bare"
    /\ Len(lines) = 3
    /\ lines[1].IsTask /\ ~lines[2].IsTask /\ lines[3].IsTask
    /\ lines[2].Indent < lines[3].Indent
    /\ taskTrees.forest = <<1>>
    /\ taskTrees.children[1] = <<3>>
    /\ bareTrees.children[1] = <<2>>

\* C18: while the help overlay is shown a key press, whatever the key (the
\* quit, edit, archive and reload keys included), only closes the overlay:
\* showHelp becomes false, Update returns no command, and no other field of
\* the model changes; while the overlay is hidden, ? and h show it.
C18_HelpOverlay ==
    [][KeyStep =>
         IF model.showHelp
         THEN /\ model' = [model EXCEPT !.showHelp = FALSE]
              /\ last'.cmd = NoCmd.kind
              /\ cmds' = cmds
              /\ UNCHANGED <<tasksFile, archiveFile>>
         ELSE last'.key \in {"?", "h"} => model'.showHelp /\ last'.cmd = NoCmd.kind]_vars

C18_Witness ==
    /\ op = "running"
    /\ last.type = "KeyMsg"
    /\ last.key = "q"
    /\ last.cmd = NoCmd.kind
    /\ ~model.showHelp

\* C19: in the terminal interface task.Archive is run, and lines reach the
\* archive file, only by a command the a key returned or by the command Init
\* returned with archive.auto set; Init with archive.auto unset, the reload
\* of the r key and the handling of EditFinishedMsg never run it, whatever
\* archive.auto is.
C19_ArchiveOnlyByKeyOrAuto ==
    /\ \A r \in archiveRuns : r[1] = "a" \/ (r[1] = "Init" /\ model.auto)
    /\ archiveFile.exists => \E r \in archiveRuns : r[2] > 0

C19_Witness ==
    /\ ~model.auto
    /\ <<"a", 1>> \in archiveRuns
    /\ archiveFile.exists
    /\ ~tasksFile.exists \/ Len(tasksFile.data) = 0

\* C20: once Update has handled the ReloadFinishedMsg of the reload that an
\* archive run that moved N > 0 lines triggered, the status is the message
\* that N tasks were archived, until a ClearStatusMsg clears it; after an
\* archive run that moved nothing the status is "No tasks to archive".
C20_ArchivedStatus ==
    /\ (last.type = "ReloadFinishedMsg" /\ last.origin = "ArchiveFinishedMsg"
          /\ last.err = NoError)
        => \E r \in archiveRuns :
             r[2] > 0 /\ model.status = Status("Archived task(s)", r[2])
    /\ (last.type = "ArchiveFinishedMsg" /\ last.err = NoError /\ last.count = 0)
        => model.status = Status("No tasks to archive", 0)

\* ---------------------------------------------------------------- git sync
\* the commands the current call of Sync has run
RanCmds == {sync.ran[i].cmd : i \in 1..Len(sync.ran)}

Did(cmd) == cmd \in RanCmds

\* the outcome of a command the current call has run
OutOf(cmd) == sync.ran[CHOOSE i \in 1..Len(sync.ran) : sync.ran[i].cmd = cmd].out

\* the place of a command in the order pull, commit, push
StepOrder == <<"remote get-url", "rev-parse", "pull", "status", "add", "commit", "push">>

StepRank(cmd) == CHOOSE k \in 1..Len(StepOrder) : StepOrder[k] = cmd

InStepOrder ==
    \A i, j \in 1..Len(sync.ran) :
        i < j => StepRank(sync.ran[i].cmd) < StepRank(sync.ran[j].cmd)

SyncFailed == sync.pc = "returned" /\ sync.err # NoError

\* C21: Sync runs git push only if origin exists and the pull did not report
\* a merge conflict; with no origin it returns an error having run neither
\* pull, commit nor push, and whenever the output of the pull contains
\* CONFLICT it returns an error without committing or pushing.
C21_PushNeedsOriginAndNoConflict ==
    /\ Did("push") => OutOf("remote get-url") /\ ~OutOf("pull").conflict
    /\ (Did("remote get-url") /\ ~OutOf("remote get-url"))
         => SyncFailed /\ RanCmds = {"remote get-url"}
    /\ (Did("pull") /\ OutOf("pull").conflict)
         => SyncFailed /\ ~Did("commit") /\ ~Did("push")

\* C21 (as the code has it): the same, for a pull that fails with CONFLICT in
\* its output; the output of a pull that succeeds is not looked at.
C21_PushNeedsOriginAndNoFailedConflict ==
    /\ Did("push")
         => /\ OutOf("remote get-url")
            /\ ~(OutOf("pull").failed /\ OutOf("pull").conflict)
    /\ (Did("remote get-url") /\ ~OutOf("remote get-url"))
         => SyncFailed /\ RanCmds = {"remote get-url"}
    /\ (Did("pull") /\ OutOf("pull").failed /\ OutOf("pull").conflict)
         => /\ SyncFailed
            /\ sync.err = "merge conflict detected"
            /\ ~Did("status") /\ ~Did("add") /\ ~Did("commit") /\ ~Did("push")

\* a call of Sync has returned the merge-conflict error
C21_Witness ==
    /\ SyncFailed
    /\ Did("pull")
    /\ OutOf("pull").failed /\ OutOf("pull").conflict
    /\ sync.n = MaxSyncs

\* the pull of the current call failed, and not with a merge conflict
PullSkipped == Did("pull") /\ OutOf("pull").failed /\ ~OutOf("pull").conflict

SyncReturned == sync.pc = "returned"

\* C22: when origin exists and the pull fails for a reason other than a merge
\* conflict, Sync commits if and only if the working tree has uncommitted
\* changes, then pushes, and returns nil if the push succeeds; the commands
\* run in the order pull, commit, push.
C22_PullFailureSkipsToPush ==
    /\ InStepOrder
    /\ (PullSkipped /\ SyncReturned)
         => /\ Did("commit") <=> (Did("status") /\ OutOf("status") = "dirty")
            /\ Did("push")
            /\ OutOf("push") => sync.err = NoError

\* C22 (as the code has it): after such a pull Sync goes on to git status;
\* it stages and commits if and only if status reports changes, and it
\* pushes unless status, add or commit failed, in which case it returns that
\* failure without pushing; it returns nil exactly when the push succeeds.
C22_PullFailureSkipsToPushUnlessStepFails ==
    /\ InStepOrder
    /\ (PullSkipped /\ SyncReturned)
         => /\ Did("status")
            /\ Did("add") <=> OutOf("status") = "dirty"
            /\ Did("commit") <=> (Did("add") /\ OutOf("add"))
            /\ Did("push") <=> (OutOf("status") = "clean" \/ (Did("commit") /\ OutOf("commit")))
            /\ sync.err = NoError <=> (Did("push") /\ OutOf("push"))

\* the pull failed without a conflict, the changes were committed and the
\* push succeeded
C22_Witness ==
    /\ PullSkipped /\ SyncReturned
    /\ Did("commit") /\ OutOf("commit")
    /\ Did("push") /\ OutOf("push")
    /\ sync.err = NoError

\* ------------------------------------------ the two stages of ProcessContent
\* the lines of the input the cascade has to change: incomplete task lines
\* below a completed task line
BelowCompleted(inL) ==
    {j \in Tasks(inL) : ~inL[j].IsCompleted /\ \E i \in Ancestors(inL, j) : inL[i].IsCompleted}

\* the lines of the input the tag sweep has to change
CompletedUntagged(inL) ==
    {j \in 1..Len(inL) : inL[j].IsCompleted /\ ~inL[j].HasDoneTag}

\* the lines whose text differs between two slices of one length
ChangedLines(inL, outL) == {j \in 1..Len(inL) : inL[j].Content # outL[j].Content}

\* C23: CascadeCompletion changes the text of no line but an incomplete task
\* line with a completed ancestor, and ProcessContent changes the text of no
\* line but those and the completed task lines without a completion tag; every
\* other line, a completed and tagged task under a completed parent included,
\* comes out as it went in, with the tag date it had.
C23_OtherLinesUntouched ==
    LET inL == ParseLines(content) IN
      /\ op = "cascade" =>
           /\ Len(lines) = Len(inL)
           /\ ChangedLines(inL, lines) \subseteq BelowCompleted(inL)
      /\ op = "process" =>
           /\ Len(lines) = Len(inL)
           /\ ChangedLines(inL, lines) \subseteq BelowCompleted(inL) \cup CompletedUntagged(inL)
           /\ StringsSplit(result) = [k \in 1..Len(lines) |-> lines[k].Content]

\* a completed task with a tag of another day lies under a completed parent
\* that ProcessContent has just tagged, and keeps its line
C23_Witness ==
    /\ op = "process"
    /\ LET inL == ParseLines(content) IN
         \E j \in Tasks(inL) :
           /\ inL[j].IsCompleted /\ inL[j].HasDoneTag
           /\ ParseDoneDate(inL[j].Content).found
           /\ ParseDoneDate(inL[j].Content).date # TimeParse(FormatToday(clock)).t
           /\ Ancestors(inL, j) # {}
           /\ NearestParent(inL, j) \in CompletedUntagged(inL)
           /\ lines[j].Content = inL[j].Content
           /\ ChangedLines(inL, lines) # {}

\* the flags of a line are what parsing its text gives
FlagsAsParsed(l) ==
    LET p == ParsedLine(l.LineNumber, l.Content) IN
      /\ l.IsTask = p.IsTask
      /\ l.IsCompleted = p.IsCompleted
      /\ l.HasDoneTag = p.HasDoneTag
      /\ l.Indent = p.Indent

\* C24: in every ParsedLine IsCompleted implies IsTask, as parsed, after
\* CascadeCompletion and after the tag sweep; and after each of the two the
\* IsTask, IsCompleted, HasDoneTag and Indent of every line are what parsing
\* the line's present Content gives.
C24_FlagsMatchContent ==
    /\ \A l \in Elems(ParseLines(content)) : l.IsCompleted => l.IsTask
    /\ op \in {"cascade", "process"} =>
         \A k \in 1..Len(lines) :
           /\ lines[k].IsCompleted => lines[k].IsTask
           /\ lines[k].LineNumber = k - 1
           /\ FlagsAsParsed(lines[k])

\* the cascade has completed a line and the sweep has tagged another
C24_Witness ==
    /\ op = "process"
    /\ LET inL == ParseLines(content) IN
         /\ \E j \in BelowCompleted(inL) : lines[j].Content # inL[j].Content
         /\ \E j \in CompletedUntagged(inL) : lines[j].Content # inL[j].Content

\* the number of completion tags in a line
DoneTags(line) == Cardinality(doneTagPattern(line))

\* C25: if no line of the input carries more than one @done tag, no line of
\* what ProcessContent returns carries more than one.
C25_AtMostOneTag ==
    op = "process" =>
      ((\A l \in Elems(ParseLines(content)) : DoneTags(l.Content) <= 1)
         => \A l \in Elems(ParseLines(result)) : DoneTags(l.Content) <= 1)

\* ------------------------------------------- Archive on files it cannot write
\* the lines of a file
FileTexts(f) == IF f.exists THEN StringsSplit(f.data) ELSE <<>>

\* an Archive run has just returned
ArchiveReturned == op \in {"archive", "failed", "again", "retry"}

\* C26: whatever Archive returns, every line of the tasks file as it loaded it
\* is afterwards in the tasks file or among the lines the run added to the
\* archive file, as often as it was in the tasks file.
C26_NoLineLost ==
    ArchiveReturned =>
      \A t \in Texts(FileTexts(before.tasks)) :
        Occurs(FileTexts(tasksFile), t)
          + (Occurs(FileTexts(archiveFile), t) - Occurs(FileTexts(before.archive), t))
          >= Occurs(FileTexts(before.tasks), t)

\* the write of the tasks file failed after the archive file was written, and
\* in another run the archive file could not be written
C26_Witness ==
    /\ op = "failed"
    /\ wrote = {"archive"}
    /\ tasksFile = before.tasks
    /\ Len(archiveFile.data) > Len(before.archive.data)

\* C27: when Archive returns an error it has modified neither file, and when
\* Archive is run again after an error no line of the tasks file is in the
\* archive file more often than it was in the two files at the start.
C27_ErrorLeavesFilesAlone ==
    /\ (ArchiveReturned /\ err # NoError)
         => tasksFile = before.tasks /\ archiveFile = before.archive
    /\ op = "retry"
         => \A t \in Texts(StringsSplit(content)) :
              Occurs(FileTexts(archiveFile), t)
                <= Occurs(StringsSplit(content), t) + Occurs(StringsSplit(prior), t)

\* the parent BuildTaskTrees gives a line: the line that has it among its
\* children, or 0 for a root and for a line that is no task
ParentIn(trees, i) ==
    LET c == {j \in DOMAIN trees.children : i \in Elems(trees.children[j])} IN
      IF c = {} THEN 0 ELSE CHOOSE j \in c : TRUE

\* the lines of the tasks file the last run loaded that it did not archive
Kept == (1..Len(ParseLines(before.tasks.data)))
          \ ArchiveMarks(before.tasks.data, delayDays, clock).archiveSet

\* C28: after a successful Archive the task lines left in the tasks file have
\* the parents and the roots BuildTaskTrees gave them before the archived
\* lines were taken out, and an Archive run straight after it, with the same
\* clock and delayDays, finds no archivable line, returns 0 and no error and
\* changes neither file.
C28_ArchiveIsStable ==
    /\ (op = "archive" /\ count > 0 /\ Kept # {}) =>
         LET inL == ParseLines(before.tasks.data)
             outL == ParseLines(tasksFile.data)
             tIn == BuildTaskTrees(inL)
             tOut == BuildTaskTrees(outL)
         IN /\ Len(outL) = Cardinality(Kept)
            /\ \A k \in 1..Len(outL) :
                 /\ outL[k].Content = inL[KthOf(Kept, k)].Content
                 /\ k \in Elems(tOut.forest) <=> KthOf(Kept, k) \in Elems(tIn.forest)
                 /\ ParentIn(tIn, KthOf(Kept, k)) =
                      IF ParentIn(tOut, k) = 0 THEN 0 ELSE KthOf(Kept, ParentIn(tOut, k))
    /\ op = "archive" =>
         FilterArchivable(tasksFile.data, delayDays, clock).archivable = <<>>
    /\ op = "again" =>
         /\ count = 0
         /\ err = NoError
         /\ wrote = {}
         /\ tasksFile = before.tasks
         /\ archiveFile = before.archive

\* the first run archived a root that stood above a task with a child of its
\* own, which are left; the second run has returned
C28_Witness ==
    /\ op = "again"
    /\ Len(StringsSplit(content)) > Len(StringsSplit(tasksFile.data))
    /\ 1 \in ArchiveMarks(content, delayDays, clock).archiveSet
    /\ LET outL == ParseLines(tasksFile.data) IN
         \E k \in Tasks(outL) : ParentIn(BuildTaskTrees(outL), k) # 0

\* --------------------------------------------------------- displayed content
\* no command waits to run and no message waits for Update, the messages of
\* status timeouts apart
Settled ==
    /\ op = "running"
    /\ \A c \in BagToSet(cmds) : c.kind = "tick"
    /\ \A msg \in BagToSet(msgs) : msg.type = "ClearStatusMsg"

\* C30: the displayed content never goes stale after a file operation of the
\* TUI: once archiveCmd, the command of the a key, or a tagging command has
\* ended without error and every message it triggered has been handled,
\* Model.content is the content of the tasks file, also when tags were added
\* to the file and nothing was archived.  (Model.Init returns one of the two
\* commands, and here none of them fails, so that this is every settled state.)
C30_ContentNeverStale ==
    Settled => model.content = tasksFile.data

\* a ClearStatusMsg is passed to Update
ClearStep ==
    /\ op = "running"
    /\ last'.type = "ClearStatusMsg"
    /\ BagCardinality(msgs') < BagCardinality(msgs)

\* C29: a status is cleared only by its own timeout: when status B is set
\* while the timeout of an earlier status A is pending, the ClearStatusMsg
\* scheduled for A does not clear B, which stays displayed until its own
\* ClearStatusMsg arrives or another status replaces it.
C29_ClearedByOwnTimeout ==
    [][(ClearStep /\ model.status # NoStatus /\ last'.origin # model.status[1])
         => model'.status = model.status]_vars

====
